---- MODULE Spec2Model ----
(***************************************************************************)
(* Model of the ShadowOS core: the x402 stealth payment ledger             *)
(* (X402StealthPayment), the Merkle tree it commits payments with, the     *)
(* prime field and the polynomials it derives proofs from.                 *)
(* Its collaborators follow: the reputation engine (AIReputationEngine),   *)
(* the merchant bridge (PrivateMerchantBridge) and the rate limiter        *)
(* (RateLimiter).                                                          *)
(*                                                                         *)
(* Byte strings.  A Uint8Array is a sequence of words.  A word is a        *)
(* string: either one raw byte, written in decimal ("0" .. "255"), or a    *)
(* digest "H(...)" that stands for the 32 bytes SHA-256 returns for the    *)
(* byte string written between the parentheses.  The digest of a byte      *)
(* string is a function of its words alone and distinct byte strings have  *)
(* distinct digests: SHA-256 is modelled as collision free.                *)
(*                                                                         *)
(* Integers.  TLC integers are 32 bits wide, so the 252 bit field prime of  *)
(* the source is scaled down to a prime below 2^15 (products of two field   *)
(* values stay exact); all arithmetic is otherwise the source's.            *)
(***************************************************************************)
EXTENDS Integers, Sequences, FiniteSets, TLC

(***************************************************************************)
(* Bytes and SHA-256                                                        *)
(***************************************************************************)

\* An array built element by element: the sequence with these elements.
Array(f) == f \o <<>>

\* The 256 raw byte words.
ByteWord == {ToString(i) : i \in 0..255}

\* Number of bytes a digest occupies (sha256 output length).
DigestLength == 32

\* value.length of a Uint8Array
RECURSIVE ByteLengthFrom(_, _)
ByteLengthFrom(bytes, k) ==
    IF k > Len(bytes) THEN 0
    ELSE (IF bytes[k] \in ByteWord THEN 1 ELSE DigestLength)
         + ByteLengthFrom(bytes, k + 1)

ByteLength(bytes) == ByteLengthFrom(bytes, 1)

\* The words of a byte string written one after the other.
RECURSIVE JoinFrom(_, _)
JoinFrom(bytes, k) ==
    IF k = Len(bytes) THEN bytes[k]
    ELSE bytes[k] \o "," \o JoinFrom(bytes, k + 1)

JoinWords(bytes) == IF bytes = <<>> THEN "" ELSE JoinFrom(bytes, 1)

\* sha256(data): 32 bytes, one digest word, injective in data.
sha256(data) == << "H(" \o JoinWords(data) \o ")" >>

\* n bytes, big-endian, of val: bytes[i] = val & 0xff; val >>= 8 for i = n-1 .. 0
\* (also DataView.setBigUint64, which keeps the low 8 bytes).
RECURSIVE BigEndianBytes(_, _)
BigEndianBytes(val, n) ==
    IF n = 0 THEN <<>>
    ELSE Append(BigEndianBytes(val \div 256, n - 1), ToString(val % 256))

\* new Uint8Array(n): n zero bytes
ZeroBytes(n) == Array([i \in 1..n |-> "0"])

(***************************************************************************)
(* FieldElement                                                             *)
(***************************************************************************)

\* The field prime (scaled: the source's is 2^251 + 17 * 2^192 + 1).
SHADOW_PRIME == 251

\* JavaScript's a % m on bigints: the remainder has the sign of a.
JsRem(a, m) == IF a >= 0 THEN a % m ELSE 0 - ((0 - a) % m)

\* FieldElement.mod without the second reduction: the remainder of %.
FieldModRemainder(a, m) == JsRem(a, m)

\* FieldElement.mod
FieldMod(a, m) == JsRem(JsRem(a, m) + m, m)

\* new FieldElement(value, modulus)
FieldElement(value, modulus) ==
    [value   |-> IF value < 0 \/ value >= modulus
                 THEN FieldMod(value, modulus) ELSE value,
     modulus |-> modulus]

\* A thrown error in place of a field element: no element has modulus 0.
\* "Cannot add/subtract/multiply field elements with different moduli"
FieldMismatch == [value |-> -1, modulus |-> 0]
\* "Field element is not invertible"
NotInvertible == [value |-> -2, modulus |-> 0]

IsThrown(a) == a.modulus = 0

FieldZero(modulus) == FieldElement(0, modulus)
FieldOne(modulus) == FieldElement(1, modulus)

FieldAdd(a, b) ==
    IF IsThrown(a) THEN a ELSE IF IsThrown(b) THEN b
    ELSE IF a.modulus # b.modulus THEN FieldMismatch
    ELSE FieldElement(FieldMod(a.value + b.value, a.modulus), a.modulus)

\* sub without the check of the moduli.
FieldSubUnchecked(a, b) ==
    IF IsThrown(a) THEN a ELSE IF IsThrown(b) THEN b
    ELSE FieldElement(FieldMod(a.value - b.value, a.modulus), a.modulus)

FieldSub(a, b) ==
    IF IsThrown(a) THEN a ELSE IF IsThrown(b) THEN b
    ELSE IF a.modulus # b.modulus THEN FieldMismatch
    ELSE FieldElement(FieldMod(a.value - b.value, a.modulus), a.modulus)

FieldMul(a, b) ==
    IF IsThrown(a) THEN a ELSE IF IsThrown(b) THEN b
    ELSE IF a.modulus # b.modulus THEN FieldMismatch
    ELSE FieldElement(FieldMod(a.value * b.value, a.modulus), a.modulus)

FieldNeg(a) ==
    IF IsThrown(a) THEN a
    ELSE FieldElement(FieldMod(0 - a.value, a.modulus), a.modulus)

\* The loop of the extended Euclidean algorithm: <<oldR, oldS>> when r = 0.
\* quotient = oldR / r truncates; every value here is >= 0 on the left.
RECURSIVE ExtendedEuclid(_, _, _, _)
ExtendedEuclid(oldR, r, oldS, s) ==
    IF r = 0 THEN <<oldR, oldS>>
    ELSE LET quotient == oldR \div r
         IN  ExtendedEuclid(r, oldR - quotient * r, s, oldS - quotient * s)

\* inverse without the check of the gcd.
FieldInverseUnchecked(a) ==
    IF IsThrown(a) THEN a
    ELSE LET e == ExtendedEuclid(a.value, a.modulus, 1, 0)
         IN  FieldElement(FieldMod(e[2], a.modulus), a.modulus)

FieldInverse(a) ==
    IF IsThrown(a) THEN a
    ELSE LET e == ExtendedEuclid(a.value, a.modulus, 1, 0)
         IN  IF e[1] > 1 THEN NotInvertible
             ELSE FieldElement(FieldMod(e[2], a.modulus), a.modulus)

FieldEquals(a, b) == a.value = b.value /\ a.modulus = b.modulus

FieldIsZero(a) == a.value = 0

\* toBytes writing the low byte first.
RECURSIVE LittleEndianBytes(_, _)
LittleEndianBytes(val, n) ==
    IF n = 0 THEN <<>>
    ELSE << ToString(val % 256) >> \o LittleEndianBytes(val \div 256, n - 1)

FieldToBytesLittleEndian(a) == LittleEndianBytes(a.value, 32)

\* toBytes: always 32 bytes, big-endian
FieldToBytes(a) == BigEndianBytes(a.value, 32)

(***************************************************************************)
(* Polynomial: the coefficient sequence, lowest degree first.  A thrown     *)
(* error is the one-coefficient sequence holding the error.                 *)
(***************************************************************************)

\* The first thrown error among the coefficients, in index order.
PolyThrown(coefficients) ==
    \E i \in 1..Len(coefficients) : IsThrown(coefficients[i])

FirstThrown(coefficients) ==
    LET i == CHOOSE k \in 1..Len(coefficients) :
                 /\ IsThrown(coefficients[k])
                 /\ \A l \in 1..(k - 1) : ~IsThrown(coefficients[l])
    IN  << coefficients[i] >>

\* The constructor's loop: pop while the last coefficient is zero.
RECURSIVE TrimCoefficients(_)
TrimCoefficients(coefficients) ==
    IF Len(coefficients) > 0 /\ FieldIsZero(coefficients[Len(coefficients)])
    THEN TrimCoefficients(SubSeq(coefficients, 1, Len(coefficients) - 1))
    ELSE coefficients

\* new Polynomial(coefficients)
Polynomial(coefficients) ==
    IF PolyThrown(coefficients) THEN FirstThrown(coefficients)
    ELSE TrimCoefficients(coefficients)

PolyDegree(p) == Len(p) - 1

\* this.coefficients[0]?.modulus || SHADOW_PRIME
PolyModulus(p) == IF Len(p) > 0 THEN p[1].modulus ELSE SHADOW_PRIME

\* coefficients[i] || FieldElement.zero(modulus), i counted from 0
PolyCoefficient(p, i, modulus) ==
    IF i >= 0 /\ i < Len(p) THEN p[i + 1] ELSE FieldZero(modulus)

Max(a, b) == IF a >= b THEN a ELSE b

PolyAdd(p, q) ==
    IF PolyThrown(p) THEN p ELSE IF PolyThrown(q) THEN q
    ELSE LET maxLen == Max(Len(p), Len(q))
             modulus == PolyModulus(p)
         IN  Polynomial(Array([i \in 1..maxLen |->
                 FieldAdd(PolyCoefficient(p, i - 1, modulus),
                          PolyCoefficient(q, i - 1, modulus))]))

PolySub(p, q) ==
    IF PolyThrown(p) THEN p ELSE IF PolyThrown(q) THEN q
    ELSE LET maxLen == Max(Len(p), Len(q))
             modulus == PolyModulus(p)
         IN  Polynomial(Array([i \in 1..maxLen |->
                 FieldSub(PolyCoefficient(p, i - 1, modulus),
                          PolyCoefficient(q, i - 1, modulus))]))

\* The inner loop of mul: coeff after the terms j .. i have been added.
RECURSIVE MulCoefficient(_, _, _, _, _, _)
MulCoefficient(p, q, modulus, i, j, coeff) ==
    IF j > i THEN coeff
    ELSE MulCoefficient(p, q, modulus, i, j + 1,
             FieldAdd(coeff, FieldMul(PolyCoefficient(p, j, modulus),
                                      PolyCoefficient(q, i - j, modulus))))

PolyMul(p, q) ==
    IF PolyThrown(p) THEN p ELSE IF PolyThrown(q) THEN q
    ELSE LET modulus == PolyModulus(p)
             degree == PolyDegree(p) + PolyDegree(q)
         IN  Polynomial(Array([i \in 1..(degree + 1) |->
                 MulCoefficient(p, q, modulus, i - 1, 0, FieldZero(modulus))]))

\* evaluate: result += coeff * power; power *= x, over the coefficients from k on
RECURSIVE EvaluateFrom(_, _, _, _, _)
EvaluateFrom(p, x, k, result, power) ==
    IF k > Len(p) THEN result
    ELSE EvaluateFrom(p, x, k + 1,
                      FieldAdd(result, FieldMul(p[k], power)),
                      FieldMul(power, x))

PolyEvaluate(p, x) ==
    IF PolyThrown(p) THEN FirstThrown(p)[1]
    ELSE EvaluateFrom(p, x, 1, FieldZero(x.modulus), FieldOne(x.modulus))

PolyZero(modulus) == Polynomial(<< FieldZero(modulus) >>)
PolyOne(modulus) == Polynomial(<< FieldOne(modulus) >>)

\* interpolate, inner loop: the basis polynomial of point i after the points
\* j .. n have been multiplied in.  points[k] = <<x, y>>.
RECURSIVE LagrangeBasis(_, _, _, _, _)
LagrangeBasis(points, modulus, i, j, basis) ==
    IF j > Len(points) THEN basis
    ELSE IF i = j THEN LagrangeBasis(points, modulus, i, j + 1, basis)
    ELSE LET xi == points[i][1]
             xj == points[j][1]
             denominator == FieldSub(xi, xj)
             numerator == Polynomial(<< FieldNeg(xj), FieldOne(modulus) >>)
         IN  LagrangeBasis(points, modulus, i, j + 1,
                 PolyMul(PolyMul(basis, numerator),
                         Polynomial(<< FieldInverse(denominator) >>)))

\* interpolate, outer loop: result after the points i .. n have been added.
RECURSIVE InterpolateFrom(_, _, _, _)
InterpolateFrom(points, modulus, i, result) ==
    IF i > Len(points) THEN result
    ELSE LET yi == points[i][2]
             basis == LagrangeBasis(points, modulus, i, 1, PolyOne(modulus))
         IN  InterpolateFrom(points, modulus, i + 1,
                 PolyAdd(result, PolyMul(basis, Polynomial(<< yi >>))))

\* "Cannot interpolate empty set of points"
EmptyInterpolationSet == [value |-> -3, modulus |-> 0]

PolyInterpolate(points) ==
    IF Len(points) = 0 THEN << EmptyInterpolationSet >>
    ELSE LET modulus == points[1][1].modulus
         IN  InterpolateFrom(points, modulus, 1, PolyZero(modulus))

(***************************************************************************)
(* MerkleTree and MerkleProof.  A tree is its sequence of levels, level 1   *)
(* the leaves; an absent value (undefined) is the empty sequence and a      *)
(* present one the one-element sequence holding it.                         *)
(***************************************************************************)

\* One pass of buildTree's for loop: the next level of currentLevel.
NextLevel(currentLevel) ==
    Array([k \in 1..((Len(currentLevel) + 1) \div 2) |->
        LET left == currentLevel[2 * k - 1]
            right == IF 2 * k <= Len(currentLevel)
                     THEN currentLevel[2 * k]
                     ELSE currentLevel[2 * k - 1]
        IN  sha256(left \o right)])

\* buildTree's while loop, from the levels built so far.
RECURSIVE BuildTree(_)
BuildTree(tree) ==
    IF Len(tree[Len(tree)]) > 1
    THEN BuildTree(Append(tree, NextLevel(tree[Len(tree)])))
    ELSE tree

\* new MerkleTree(leaves)
MerkleTree(leaves) == BuildTree(<< leaves >>)

MerkleGetRoot(tree) ==
    IF Len(tree) = 0 \/ Len(tree[Len(tree)]) = 0 THEN <<>>
    ELSE << tree[Len(tree)][1] >>

\* getProof's loop with an unpaired node given no sibling.
RECURSIVE ProofSiblingsSkipUnpaired(_, _, _)
ProofSiblingsSkipUnpaired(tree, level, currentIndex) ==
    IF level > Len(tree) - 1 THEN <<>>
    ELSE LET levelNodes == tree[level]
             siblingIndex == IF currentIndex % 2 = 0
                             THEN currentIndex + 1 ELSE currentIndex - 1
         IN  (IF siblingIndex < Len(levelNodes)
              THEN << levelNodes[siblingIndex + 1] >> ELSE <<>>)
             \o ProofSiblingsSkipUnpaired(tree, level + 1, currentIndex \div 2)

\* getProof's loop: the siblings from the given level up (levels from 1,
\* currentIndex from 0).
RECURSIVE ProofSiblings(_, _, _)
ProofSiblings(tree, level, currentIndex) ==
    IF level > Len(tree) - 1 THEN <<>>
    ELSE LET levelNodes == tree[level]
             siblingIndex == IF currentIndex % 2 = 0
                             THEN currentIndex + 1 ELSE currentIndex - 1
             sibling == IF siblingIndex < Len(levelNodes)
                        THEN levelNodes[siblingIndex + 1]
                        ELSE levelNodes[currentIndex + 1]
         IN  << sibling >> \o ProofSiblings(tree, level + 1, currentIndex \div 2)

\* getProof throws "Invalid leaf index" unless this holds.
MerkleIndexValid(tree, index) == index >= 0 /\ index < Len(tree[1])

\* getProof(index), for a valid index.  root is getRoot(): a one-element
\* sequence (a tree with a leaf has a root).
MerkleGetProof(tree, index) ==
    [leaf     |-> tree[1][index + 1],
     siblings |-> ProofSiblings(tree, 1, index),
     index    |-> index,
     root     |-> MerkleGetRoot(tree)[1]]

\* PathHash with the sibling always on the right, whatever the index.
RECURSIVE PathHashLeftOnly(_, _, _, _)
PathHashLeftOnly(siblings, k, currentHash, currentIndex) ==
    IF k > Len(siblings) THEN currentHash
    ELSE PathHashLeftOnly(siblings, k + 1, sha256(currentHash \o siblings[k]),
                          currentIndex \div 2)

\* MerkleProof.verify's loop: the hash after the siblings from k on.
RECURSIVE PathHash(_, _, _, _)
PathHash(siblings, k, currentHash, currentIndex) ==
    IF k > Len(siblings) THEN currentHash
    ELSE LET sibling == siblings[k]
             combined == IF currentIndex % 2 = 0
                         THEN currentHash \o sibling
                         ELSE sibling \o currentHash
         IN  PathHash(siblings, k + 1, sha256(combined), currentIndex \div 2)

\* The comparison with the root by length alone.
BytesEqualInLength(a, b) == ByteLength(a) = ByteLength(b)

\* The byte comparison loops: equal length and equal bytes.
BytesEqual(a, b) == ByteLength(a) = ByteLength(b) /\ a = b

MerkleVerify(proof) ==
    BytesEqual(PathHash(proof.siblings, 1, proof.leaf, proof.index), proof.root)

(***************************************************************************)
(* X402StealthPayment: the ledger                                           *)
(***************************************************************************)

VARIABLES
    stealthPayments,  \* this.stealthPayments: the stored payment records
    merkleTree,       \* this.merkleTree: <<>> while undefined, else the tree
    createFailed,     \* TRUE once a createPayment/createBatchPayments call threw
    call,             \* the last call: its name and arguments
    result,           \* what the last call returned or threw
    proof             \* the StealthProof the caller holds: <<>> or <<proof>>

\* State of the collaborators of the ledger: the reputation engine, the
\* merchant bridge and the rate limiter, and the clock they read.
VARIABLES
    identities,       \* AIReputationEngine.identities: pseudonym -> shadow
    merchants,        \* PrivateMerchantBridge.merchants: merchantId -> config
    invoices,         \* PrivateMerchantBridge.invoices: invoiceId -> invoice
    receipts,         \* PrivateMerchantBridge.receipts: invoiceId -> receipt
    requests,         \* RateLimiter.requests: identifier -> request times
    now,              \* Date.now()
    history           \* the calls made on the limiter so far, oldest first

vars == << stealthPayments, merkleTree, createFailed, call, result, proof,
           identities, merchants, invoices, receipts, requests, now, history >>

\* The collaborators as constructed: every map empty.
ServicesNew ==
    /\ identities = << >>
    /\ merchants = << >>
    /\ invoices = << >>
    /\ receipts = << >>
    /\ requests = << >>
    /\ now = 0
    /\ history = << >>

\* A call on the ledger, a tree, a field element or a polynomial touches
\* none of the collaborators.
ServicesFrame ==
    UNCHANGED << identities, merchants, invoices, receipts, requests, now, history >>

\* Most payments a ledger of the model holds.
MaxPayments == 2
\* Longest list given to createBatchPayments.
MaxBatch == 2

\* Stealth addresses: two of 32 bytes, one of 31 bytes, one of 33, one empty.
AddressA == Array([i \in 1..32 |-> "17"])
AddressB == Array([i \in 1..32 |-> "34"])
Address31 == Array([i \in 1..31 |-> "17"])
Address33 == Array([i \in 1..33 |-> "17"])
AddressEmpty == <<>>

PaymentInput(a, n, t) == [stealthAddress |-> a, amount |-> n, timestamp |-> t]

\* Arguments of createPayment (the timestamp always given: its default,
\* Date.now(), is some integer >= 0 as well).
ValidInputs == { PaymentInput(AddressA, 1, 0), PaymentInput(AddressB, 2, 1) }
InvalidInputs ==
    { PaymentInput(Address31, 1, 0), PaymentInput(Address33, 1, 0),
      PaymentInput(AddressEmpty, 1, 0),
      PaymentInput(AddressA, 0, 0), PaymentInput(AddressA, 1, -1) }
PaymentInputs == ValidInputs \cup InvalidInputs

\* Items of the lists given to createBatchPayments.
BatchInputs == ValidInputs \cup { PaymentInput(AddressA, 0, 0) }

\* validateStealthAddress without its exact-length check.
StealthAddressAtLeast32(value) == ~(ByteLength(value) < 32)

\* validateBytes(value, name, 32) then length !== 32
StealthAddressValid(value) ==
    ~(ByteLength(value) < 32) /\ ~(ByteLength(value) # 32)

\* validateBigInt(value, name, min): no max is given
BigIntValid(value, min) == ~(value < min)

\* The three validations at the head of createPayment and of the batch loop.
InputValid(in) ==
    /\ StealthAddressValid(in.stealthAddress)
    /\ BigIntValid(in.amount, 1)
    /\ BigIntValid(in.timestamp, 0)

\* H(stealthAddress || amount || timestamp): 32 + 32 + 8 bytes
Commitment(stealthAddress, amountField, timestamp) ==
    sha256(stealthAddress \o FieldToBytes(amountField) \o BigEndianBytes(timestamp, 8))

\* The StealthPayment record built from valid arguments.
MakePayment(in) ==
    LET amountField == FieldElement(in.amount, SHADOW_PRIME)
    IN  [commitment     |-> Commitment(in.stealthAddress, amountField, in.timestamp),
         stealthAddress |-> in.stealthAddress,
         amount         |-> amountField,
         timestamp      |-> in.timestamp]

\* rebuildMerkleTree: the tree over the commitments of the given payments
RebuildMerkleTree(payments) ==
    MerkleTree(Array([i \in 1..Len(payments) |-> payments[i].commitment]))

\* getRoot(): this.merkleTree?.getRoot()
getRoot == IF merkleTree = <<>> THEN <<>> ELSE MerkleGetRoot(merkleTree)

getPaymentCount == Len(stealthPayments)

\* getPayment counting the index from the newest payment.
getPaymentFromEnd(index) ==
    IF index < 0 \/ index >= Len(stealthPayments) THEN <<>>
    ELSE << stealthPayments[Len(stealthPayments) - index] >>

\* getPayment(index): <<>> for undefined
getPayment(index) ==
    IF index < 0 \/ index >= Len(stealthPayments) THEN <<>>
    ELSE << stealthPayments[index + 1] >>

NoTamper == [kind |-> "none", k |-> 0, bytes |-> <<>>, field |-> FieldZero(SHADOW_PRIME)]

NoCall == [op |-> "new", inputs |-> <<>>, index |-> 0, publicInput |-> <<>>,
           tamper |-> NoTamper, expectedRoot |-> <<>>]

\* rebuilds: the number of trees rebuildMerkleTree built during the last call.
NoResult == [outcome |-> "ok", created |-> <<>>, valid |-> FALSE, payment |-> <<>>,
             rebuilds |-> 0]

Init ==
    /\ ServicesNew
    /\ stealthPayments = <<>>
    /\ merkleTree = <<>>
    /\ createFailed = FALSE
    /\ call = NoCall
    /\ result = NoResult
    /\ proof = <<>>

\* this.rebuildMerkleTree() called at each of the given contents of
\* this.stealthPayments in turn: the trees it builds, in the order of the calls.
RebuiltTrees(ledgers) ==
    Array([i \in 1..Len(ledgers) |-> RebuildMerkleTree(ledgers[i])])

\* The contents of this.stealthPayments at each call of rebuildMerkleTree
\* that createPayment makes: one call, after the push.
PaymentRebuilds(before, payment) == << Append(before, payment) >>

\* createPayment(stealthAddress, amount, timestamp) on a ledger of any length
CreatePaymentCall(in) ==
    /\ ServicesFrame
    /\ call' = [NoCall EXCEPT !.op = "createPayment", !.inputs = << in >>]
    /\ proof' = <<>>
    /\ IF ~InputValid(in)
       THEN /\ result' = [NoResult EXCEPT !.outcome = "ValidationError"]
            /\ createFailed' = TRUE
            /\ UNCHANGED << stealthPayments, merkleTree >>
       ELSE LET payment == MakePayment(in)
                pushed == Append(stealthPayments, payment)
                trees == RebuiltTrees(PaymentRebuilds(stealthPayments, payment))
            IN  /\ stealthPayments' = pushed
                /\ merkleTree' = trees[Len(trees)]
                /\ result' = [NoResult EXCEPT !.created = << payment >>,
                                              !.rebuilds = Len(trees)]
                /\ UNCHANGED createFailed

\* createPayment(stealthAddress, amount, timestamp)
CreatePayment(in) ==
    /\ Len(stealthPayments) < MaxPayments
    /\ CreatePaymentCall(in)

\* A batch that validates every item before it appends any.
ValidPrefixAtomic(inputs) ==
    IF \A i \in 1..Len(inputs) : InputValid(inputs[i]) THEN Len(inputs) ELSE 0

\* The number of items of the list the batch loop appends before it throws:
\* all of them when every item is valid.
RECURSIVE ValidPrefix(_)
ValidPrefix(inputs) ==
    IF inputs = <<>> \/ ~InputValid(Head(inputs)) THEN 0
    ELSE 1 + ValidPrefix(Tail(inputs))

\* A batch that calls rebuildMerkleTree after every push of its loop.
BatchRebuildsPerItem(before, created) ==
    Array([i \in 1..Len(created) |-> before \o SubSeq(created, 1, i)])

\* The contents of this.stealthPayments at each call of rebuildMerkleTree
\* that a batch makes when no item throws: one call, after the loop has
\* pushed every payment.
BatchRebuilds(before, created) == << before \o created >>

\* A batch that appends its payments and leaves the tree as it was.
CreateBatchPaymentsStaleTree(inputs) ==
    /\ ServicesFrame
    /\ Len(inputs) > 0
    /\ ValidPrefix(inputs) = Len(inputs)
    /\ Len(stealthPayments) + Len(inputs) <= MaxPayments
    /\ call' = [NoCall EXCEPT !.op = "createBatchPayments", !.inputs = inputs]
    /\ proof' = <<>>
    /\ stealthPayments' =
           stealthPayments \o Array([i \in 1..Len(inputs) |-> MakePayment(inputs[i])])
    /\ result' = [NoResult EXCEPT
                     !.created = Array([i \in 1..Len(inputs) |-> MakePayment(inputs[i])])]
    /\ UNCHANGED << merkleTree, createFailed >>

\* createBatchPayments(payments)
CreateBatchPayments(inputs) ==
    /\ ServicesFrame
    /\ Len(stealthPayments) + ValidPrefix(inputs) <= MaxPayments
    /\ call' = [NoCall EXCEPT !.op = "createBatchPayments", !.inputs = inputs]
    /\ proof' = <<>>
    /\ IF Len(inputs) = 0
       THEN /\ result' = [NoResult EXCEPT !.outcome = "ValidationError"]
            /\ createFailed' = TRUE
            /\ UNCHANGED << stealthPayments, merkleTree >>
       ELSE LET k == ValidPrefix(inputs)
                createdPayments == Array([i \in 1..k |-> MakePayment(inputs[i])])
                pushed == stealthPayments \o createdPayments
            IN  IF k < Len(inputs)
                THEN \* the throw leaves the loop: the pushes stay, no rebuild
                     /\ stealthPayments' = pushed
                     /\ result' = [NoResult EXCEPT !.outcome = "ValidationError"]
                     /\ createFailed' = TRUE
                     /\ UNCHANGED merkleTree
                ELSE LET trees == RebuiltTrees(BatchRebuilds(stealthPayments,
                                                             createdPayments))
                     IN  /\ stealthPayments' = pushed
                         /\ merkleTree' = trees[Len(trees)]
                         /\ result' = [NoResult EXCEPT !.created = createdPayments,
                                                       !.rebuilds = Len(trees)]
                         /\ UNCHANGED createFailed

\* getPayment(index)
GetPayment(index) ==
    /\ ServicesFrame
    /\ call' = [NoCall EXCEPT !.op = "getPayment", !.index = index]
    /\ result' = [NoResult EXCEPT !.payment = getPayment(index)]
    /\ proof' = <<>>
    /\ UNCHANGED << stealthPayments, merkleTree, createFailed >>

\* Sequences over S of length 0 .. n
SeqUpTo(S, n) == UNION { [1..m -> S] : m \in 0..n }

(***************************************************************************)
(* Proofs                                                                   *)
(***************************************************************************)

\* Number of evaluations generateZKProof commits to.
EvaluationCount == 8
\* queryIndices
QueryIndices == << 0, 2, 4, 6 >>

\* What FieldElement.random(SHADOW_PRIME) returns in the 8 rounds of one
\* generateZKProof call: any values of the field; the model draws the 8 from
\* these sequences.
RandomDraws ==
    { << 3, 5, 7, 11, 13, 17, 19, 23 >>,
      << 0, 0, 1, 1, 250, 250, 2, 2 >> }

\* Lists given as publicInput: field elements of the ledger's field, and of
\* another field (modulus 7).
PublicInputs ==
    { <<>>, << FieldElement(5, SHADOW_PRIME) >>, << FieldElement(3, 7) >> }

\* The bytes of all inputs, one after the other (the forEach filling
\* challengeData after the commitment).
RECURSIVE InputBytes(_)
InputBytes(publicInput) ==
    IF publicInput = <<>> THEN <<>>
    ELSE FieldToBytes(Head(publicInput)) \o InputBytes(Tail(publicInput))

\* The Fiat-Shamir challenge: sha256(polynomialCommitment || inputs) read as
\* an integer, % SHADOW_PRIME.  The integer a digest spells is named by the
\* digest word itself (reading 32 bytes as an integer is injective, and the
\* value is only ever compared, never computed with).
Challenge(polynomialCommitment, publicInput) ==
    LET hashBytes == sha256(polynomialCommitment \o InputBytes(publicInput))
    IN  [value |-> hashBytes[1], modulus |-> SHADOW_PRIME]

\* generateZKProof(payment, publicInput), the random elements being draws.
\* thrown is TRUE when the call throws (a field operation on different moduli).
GenerateZKProof(payment, publicInput, draws) ==
    LET trace == << payment.amount, FieldElement(payment.timestamp, SHADOW_PRIME) >>
                 \o publicInput
        points == Array([i \in 1..Len(trace) |->
                            << FieldElement(i - 1, SHADOW_PRIME), trace[i] >>])
        poly == PolyInterpolate(points)
        evaluations == Array([i \in 1..EvaluationCount |->
                           PolyEvaluate(poly, FieldElement(draws[i], SHADOW_PRIME))])
        thrown == PolyThrown(poly) \/ PolyThrown(evaluations)
        evaluationLeaves ==
            Array([i \in 1..EvaluationCount |-> FieldToBytes(evaluations[i])])
        evalTree == MerkleTree(evaluationLeaves)
        polynomialCommitment == MerkleGetRoot(evalTree)[1]
    IN  IF thrown
        THEN [thrown |-> TRUE, polynomialCommitment |-> <<>>,
              evaluationProofs |-> <<>>,
              challenge |-> FieldZero(SHADOW_PRIME), response |-> <<>>]
        ELSE [thrown |-> FALSE,
              polynomialCommitment |-> polynomialCommitment,
              evaluationProofs |->
                  Array([q \in 1..Len(QueryIndices) |->
                            MerkleGetProof(evalTree, QueryIndices[q])]),
              challenge |-> Challenge(polynomialCommitment, publicInput),
              response |-> Array([q \in 1..Len(QueryIndices) |->
                                      evaluations[QueryIndices[q] + 1]])]

\* verifyZKProof without its challenge check.
VerifyZKProofNoChallenge(zkProof, publicInput) ==
    \A k \in 1..Len(zkProof.evaluationProofs) :
        MerkleVerify(zkProof.evaluationProofs[k])

\* verifyZKProof(zkProof, publicInput)
VerifyZKProof(zkProof, publicInput) ==
    IF \E k \in 1..Len(zkProof.evaluationProofs) :
           ~MerkleVerify(zkProof.evaluationProofs[k])
    THEN FALSE
    ELSE LET expectedChallenge == Challenge(zkProof.polynomialCommitment, publicInput)
         IN  IF ~FieldEquals(zkProof.challenge, expectedChallenge) THEN FALSE
             ELSE TRUE

\* verifyProof(proof, expectedRoot)
VerifyProofResult(p, expectedRoot) ==
    IF ~MerkleVerify(p.merkleProof) THEN FALSE
    ELSE LET rootMatches == BytesEqual(p.merkleProof.root, expectedRoot)
         IN  IF ~rootMatches THEN FALSE
             ELSE VerifyZKProof(p.zkProof, p.publicInput)

\* The range check with > for >=.
PaymentIndexBeyond(paymentIndex) ==
    paymentIndex < 0 \/ paymentIndex > Len(stealthPayments)

\* generateProof's range check: the index it throws ProofError for
PaymentIndexInvalid(paymentIndex) ==
    paymentIndex < 0 \/ paymentIndex >= Len(stealthPayments)

\* generateProof(paymentIndex, publicInput).  "Error" is the plain Error of
\* MerkleTree.getProof ("Invalid leaf index") or of a field operation.
GenerateProof(paymentIndex, publicInput, draws) ==
    /\ ServicesFrame
    /\ call' = [NoCall EXCEPT !.op = "generateProof", !.index = paymentIndex,
                              !.publicInput = publicInput]
    /\ UNCHANGED << stealthPayments, merkleTree, createFailed >>
    /\ IF PaymentIndexInvalid(paymentIndex)
       THEN /\ result' = [NoResult EXCEPT !.outcome = "ProofError"]
            /\ proof' = <<>>
       ELSE IF merkleTree = <<>>
       THEN /\ result' = [NoResult EXCEPT !.outcome = "ProofError"]
            /\ proof' = <<>>
       ELSE IF ~MerkleIndexValid(merkleTree, paymentIndex)
       THEN /\ result' = [NoResult EXCEPT !.outcome = "Error"]
            /\ proof' = <<>>
       ELSE LET payment == stealthPayments[paymentIndex + 1]
            IN  \E zk \in { GenerateZKProof(payment, publicInput, draws) } :
                    IF zk.thrown
                    THEN /\ result' = [NoResult EXCEPT !.outcome = "Error"]
                         /\ proof' = <<>>
                    ELSE /\ result' = NoResult
                         /\ proof' =
                              << [commitment  |-> payment.commitment,
                                  merkleProof |-> MerkleGetProof(merkleTree, paymentIndex),
                                  zkProof     |->
                                      [polynomialCommitment |-> zk.polynomialCommitment,
                                       evaluationProofs |-> zk.evaluationProofs,
                                       challenge |-> zk.challenge,
                                       response |-> zk.response],
                                  publicInput |-> publicInput] >>

\* Byte strings a caller puts in place of proof.commitment: 32 zero bytes
\* (as the test does) and a single byte.
TamperBytes == { ZeroBytes(32), << "1" >> }

\* A digest that is no node of any tree of the model.
OtherDigest == sha256(<<>>)

\* What a caller may change in a proof before it hands it to verifyProof.
Tampers(p) ==
    { NoTamper }
    \cup { [NoTamper EXCEPT !.kind = "commitment", !.bytes = b] : b \in TamperBytes }
    \cup { [NoTamper EXCEPT !.kind = kind, !.bytes = OtherDigest] :
             kind \in { "leaf", "root", "polynomialCommitment" } }
    \cup { [NoTamper EXCEPT !.kind = "sibling", !.k = k, !.bytes = OtherDigest] :
             k \in 1..Len(p.merkleProof.siblings) }
    \cup { [NoTamper EXCEPT !.kind = "evaluationLeaf", !.k = Len(QueryIndices),
                            !.bytes = ZeroBytes(32)] }
    \cup { [NoTamper EXCEPT !.kind = "response", !.k = k,
                            !.field = FieldAdd(p.zkProof.response[k], f)] :
             k \in 1..Len(QueryIndices),
             f \in { FieldOne(SHADOW_PRIME) } }
    \cup { [NoTamper EXCEPT !.kind = kind] : kind \in { "challenge", "publicInput" } }

\* The proof p with the change t made to it.
Tamper(p, t) ==
    CASE t.kind = "none" -> p
      [] t.kind = "commitment" -> [p EXCEPT !.commitment = t.bytes]
      [] t.kind = "leaf" -> [p EXCEPT !.merkleProof.leaf = t.bytes]
      [] t.kind = "root" -> [p EXCEPT !.merkleProof.root = t.bytes]
      [] t.kind = "sibling" -> [p EXCEPT !.merkleProof.siblings[t.k] = t.bytes]
      [] t.kind = "polynomialCommitment" ->
             [p EXCEPT !.zkProof.polynomialCommitment = t.bytes]
      [] t.kind = "evaluationLeaf" ->
             [p EXCEPT !.zkProof.evaluationProofs[t.k].leaf = t.bytes]
      [] t.kind = "response" -> [p EXCEPT !.zkProof.response[t.k] = t.field]
      [] t.kind = "challenge" ->
             [p EXCEPT !.zkProof.challenge = Challenge(<<>>, <<>>)]
      [] t.kind = "publicInput" ->
             [p EXCEPT !.publicInput = Append(@, FieldElement(9, SHADOW_PRIME))]
      [] t.kind = "evaluationProofs" ->
             [p EXCEPT !.zkProof.evaluationProofs = << p.merkleProof >>]

\* The calls verifyProof(changed proof, expectedRoot) of the model: every
\* change with getRoot() as expectedRoot (there is a root whenever the caller
\* holds a proof), and the unchanged proof and the proof with another root
\* written in it with that other root as expectedRoot.
VerifyInputs(p) ==
    { << t, getRoot[1] >> : t \in Tampers(p) }
    \cup { << t, OtherDigest >> : t \in { u \in Tampers(p) : u.kind \in { "none", "root" } } }

\* verifyProof(proof, expectedRoot) on the proof the caller holds, changed by t
VerifyProof(t, expectedRoot) ==
    /\ ServicesFrame
    /\ proof # <<>>
    /\ call' = [NoCall EXCEPT !.op = "verifyProof", !.tamper = t,
                              !.expectedRoot = expectedRoot]
    /\ result' = [NoResult EXCEPT
                     !.valid = VerifyProofResult(Tamper(proof[1], t), expectedRoot)]
    /\ UNCHANGED << stealthPayments, merkleTree, createFailed, proof >>

Next ==
    \/ \E in \in PaymentInputs : CreatePayment(in)
    \/ \E inputs \in SeqUpTo(BatchInputs, MaxBatch) : CreateBatchPayments(inputs)
    \/ \E index \in -1..Len(stealthPayments) : GetPayment(index)
    \/ \E index \in -1..Len(stealthPayments), publicInput \in PublicInputs,
          draws \in RandomDraws :
           GenerateProof(index, publicInput, draws)
    \/ /\ proof # <<>>
       /\ \E in \in VerifyInputs(proof[1]) : VerifyProof(in[1], in[2])

Spec == Init /\ [][Next]_vars

(***************************************************************************)
(* Properties of the ledger                                                 *)
(***************************************************************************)

\* The arguments of the last createPayment call.
CreateArgs == call.inputs[1]

\* The proof the last verifyProof call was given.
VerifiedProof == Tamper(proof[1], call.tamper)

InField(publicInput) ==
    \A k \in 1..Len(publicInput) : publicInput[k].modulus = SHADOW_PRIME

\* The state follows a generateProof call with an index in range, on a ledger
\* no create call of which has failed.
ProofRequested ==
    /\ call.op = "generateProof"
    /\ ~createFailed
    /\ call.index >= 0 /\ call.index < getPaymentCount

ProofReturnedAndVerifies ==
    /\ result.outcome = "ok"
    /\ proof # <<>>
    /\ getRoot # <<>>
    /\ VerifyProofResult(proof[1], getRoot[1])

\* C1 (as amended): after any sequence of successful createPayment /
\* createBatchPayments calls, for every index in range and every list of
\* public inputs that are elements of the ledger's field (modulus
\* SHADOW_PRIME), generateProof returns a proof that verifyProof accepts
\* against getRoot().
C1_ProofVerifies ==
    (ProofRequested /\ InField(call.publicInput)) => ProofReturnedAndVerifies

\* C1 as stated: the same for any list of public inputs.
C1_AnyPublicInput == ProofRequested => ProofReturnedAndVerifies

\* A proof for the second of two payments, with one public input.
C1_Witness ==
    /\ ProofRequested /\ InField(call.publicInput)
    /\ call.index = 1 /\ Len(call.publicInput) = 1
    /\ ProofReturnedAndVerifies

\* C2: a proof whose commitment was replaced by a different byte string is
\* rejected by verifyProof(proof, getRoot()).
C2_CommitmentBound ==
    ( /\ call.op = "verifyProof"
      /\ call.tamper.kind = "commitment"
      /\ call.tamper.bytes # proof[1].commitment
      /\ << call.expectedRoot >> = getRoot )
    => result.valid = FALSE

\* C3: a proof one response element of which was replaced by a different
\* field element is rejected by verifyProof(proof, getRoot()).
C3_ResponseBound ==
    ( /\ call.op = "verifyProof"
      /\ call.tamper.kind = "response"
      /\ ~FieldEquals(call.tamper.field, proof[1].zkProof.response[call.tamper.k])
      /\ << call.expectedRoot >> = getRoot )
    => result.valid = FALSE

\* C4: in every state, also the one a failed create call leaves, there is no
\* root exactly when no payment is stored, and otherwise the root is the
\* root of the Merkle tree over the commitments of all stored payments.
C4_TreeOverAllPayments ==
    /\ (getPaymentCount = 0) <=> (getRoot = <<>>)
    /\ getPaymentCount > 0 =>
           getRoot = MerkleGetRoot(RebuildMerkleTree(stealthPayments))

\* The four checks of verifyProof, each stated on its own.
InclusionVerifies(p) == MerkleVerify(p.merkleProof)
RootIsExpected(p, expectedRoot) ==
    /\ ByteLength(p.merkleProof.root) = ByteLength(expectedRoot)
    /\ p.merkleProof.root = expectedRoot
SubProofsVerify(p) ==
    \A k \in 1..Len(p.zkProof.evaluationProofs) :
        MerkleVerify(p.zkProof.evaluationProofs[k])
ChallengeRecomputes(p) ==
    p.zkProof.challenge = Challenge(p.zkProof.polynomialCommitment, p.publicInput)

\* C5: verifyProof returns true exactly when the inclusion proof verifies,
\* its root equals expectedRoot, every evaluation sub-proof verifies and the
\* challenge equals the recomputed one; otherwise it returns false (it does
\* not throw).
C5_FourChecks ==
    call.op = "verifyProof" =>
        /\ result.outcome = "ok"
        /\ result.valid <=> ( /\ InclusionVerifies(VerifiedProof)
                              /\ RootIsExpected(VerifiedProof, call.expectedRoot)
                              /\ SubProofsVerify(VerifiedProof)
                              /\ ChallengeRecomputes(VerifiedProof) )

\* A proof rejected for its challenge alone.
C5_Witness ==
    /\ call.op = "verifyProof"
    /\ call.tamper.kind = "challenge"
    /\ InclusionVerifies(VerifiedProof)
    /\ RootIsExpected(VerifiedProof, call.expectedRoot)
    /\ SubProofsVerify(VerifiedProof)
    /\ result.valid = FALSE

\* C6: createPayment with a destination that is not 32 bytes long, an
\* amount < 1 or a timestamp < 0 throws ValidationError and leaves the
\* payments and the tree as they were.
C6_InvalidPaymentRejected ==
    [][ ( /\ call'.op = "createPayment"
          /\ \/ ByteLength(call'.inputs[1].stealthAddress) # 32
             \/ call'.inputs[1].amount < 1
             \/ call'.inputs[1].timestamp < 0 )
        => ( /\ result'.outcome = "ValidationError"
             /\ stealthPayments' = stealthPayments
             /\ merkleTree' = merkleTree ) ]_vars

\* A 33 byte destination rejected by a ledger that holds a payment.
C6_Witness ==
    /\ call.op = "createPayment"
    /\ ByteLength(CreateArgs.stealthAddress) = 33
    /\ result.outcome = "ValidationError"
    /\ getPaymentCount = 1 /\ getRoot # <<>>

\* C7: generateProof with index < 0 or index >= getPaymentCount() throws
\* ProofError and leaves the payments and the tree as they were.
C7_IndexOutOfRange ==
    [][ ( /\ call'.op = "generateProof"
          /\ (call'.index < 0 \/ call'.index >= Len(stealthPayments)) )
        => ( /\ result'.outcome = "ProofError"
             /\ proof' = <<>>
             /\ stealthPayments' = stealthPayments
             /\ merkleTree' = merkleTree ) ]_vars

\* The index equal to the payment count, on a ledger with a tree.
C7_Witness ==
    /\ call.op = "generateProof"
    /\ getPaymentCount > 0 /\ getRoot # <<>>
    /\ call.index = getPaymentCount
    /\ result.outcome = "ProofError"

\* The list has its first invalid item at position k (counted from 0).
FirstInvalidAt(inputs, k) ==
    /\ k < Len(inputs)
    /\ \A j \in 1..k : InputValid(inputs[j])
    /\ ~InputValid(inputs[k + 1])

\* C8: createBatchPayments throws ValidationError on an empty list, and on a
\* list whose first invalid item is at position k it throws ValidationError
\* after appending exactly the k items before it, which stay stored.
C8_BatchFailFast ==
    [][ call'.op = "createBatchPayments" =>
          /\ Len(call'.inputs) = 0 =>
                 /\ result'.outcome = "ValidationError"
                 /\ stealthPayments' = stealthPayments
          /\ \A k \in 0..(Len(call'.inputs) - 1) :
                 FirstInvalidAt(call'.inputs, k) =>
                     /\ result'.outcome = "ValidationError"
                     /\ Len(stealthPayments') = Len(stealthPayments) + k
                     /\ stealthPayments' = stealthPayments \o
                            [j \in 1..k |-> MakePayment(call'.inputs[j])] ]_vars

\* A batch that failed at its second item and left its first stored.
C8_Witness ==
    /\ call.op = "createBatchPayments"
    /\ FirstInvalidAt(call.inputs, 1)
    /\ result.outcome = "ValidationError"
    /\ getPaymentCount = 2
    /\ stealthPayments[2] = MakePayment(call.inputs[1])

\* C9: a successful createBatchPayments call with N items raises
\* getPaymentCount() by N and builds the tree once, over all the payments;
\* a successful createPayment call builds it once, over the payments with
\* the new one, so N of them rebuild it N times.  The count is the number of
\* trees the call built, the tree it leaves the last of them.
C9_RebuildCounts ==
    [][ /\ (call'.op = "createBatchPayments" /\ result'.outcome = "ok") =>
               /\ Len(stealthPayments') = Len(stealthPayments) + Len(call'.inputs)
               /\ result'.rebuilds = 1
               /\ merkleTree' = RebuildMerkleTree(stealthPayments')
        /\ (call'.op = "createPayment" /\ result'.outcome = "ok") =>
               /\ Len(stealthPayments') = Len(stealthPayments) + 1
               /\ result'.rebuilds = 1
               /\ merkleTree' = RebuildMerkleTree(stealthPayments') ]_vars

\* A successful batch of two.
C9_Witness ==
    /\ call.op = "createBatchPayments"
    /\ result.outcome = "ok"
    /\ Len(call.inputs) = 2
    /\ getPaymentCount = 2
    /\ result.rebuilds = 1

\* C10: the payments are append-only: no step shortens the sequence or
\* changes a stored record, a successful create call returns exactly the
\* records it appended, and getPayment returns the stored record for an
\* index in range and undefined, without throwing, for any other.
C10_AppendOnly ==
    [][ /\ Len(stealthPayments') >= Len(stealthPayments)
        /\ \A i \in 1..Len(stealthPayments) : stealthPayments'[i] = stealthPayments[i]
        /\ (call'.op \in { "createPayment", "createBatchPayments" }
              /\ result'.outcome = "ok") =>
               stealthPayments' = stealthPayments \o result'.created
        /\ call'.op = "getPayment" =>
               /\ result'.outcome = "ok"
               /\ result'.payment =
                      IF call'.index >= 0 /\ call'.index < Len(stealthPayments)
                      THEN << stealthPayments[call'.index + 1] >>
                      ELSE <<>> ]_vars

\* The older of two different payments read back.
C10_Witness ==
    /\ call.op = "getPayment"
    /\ getPaymentCount = 2
    /\ stealthPayments[1] # stealthPayments[2]
    /\ call.index = 0
    /\ result.payment = << stealthPayments[1] >>

(***************************************************************************)
(* MerkleTree and MerkleProof on their own: a caller builds a tree over     *)
(* leaves of its choice, asks for proofs and verifies them, changed or not. *)
(* merkleTree holds the tree built last and proof the MerkleProof returned  *)
(* last.                                                                    *)
(***************************************************************************)

\* Most leaves of a tree of the model.
MaxLeaves == 4

\* Leaves: byte strings of one byte and of two.
LeafValues == { << "1" >>, << "2", "3" >> }

\* new MerkleTree(leaves)
MerkleNew(leaves) ==
    /\ ServicesFrame
    /\ call' = [NoCall EXCEPT !.op = "MerkleTree", !.inputs = leaves]
    /\ merkleTree' = MerkleTree(leaves)
    /\ result' = NoResult
    /\ proof' = <<>>
    /\ UNCHANGED << stealthPayments, createFailed >>

\* tree.getProof(index): "Error" is the plain Error "Invalid leaf index"
MerkleProofOf(index) ==
    /\ ServicesFrame
    /\ merkleTree # <<>>
    /\ call' = [NoCall EXCEPT !.op = "getProof", !.index = index]
    /\ IF ~MerkleIndexValid(merkleTree, index)
       THEN /\ result' = [NoResult EXCEPT !.outcome = "Error"]
            /\ proof' = <<>>
       ELSE /\ result' = NoResult
            /\ proof' = << MerkleGetProof(merkleTree, index) >>
    /\ UNCHANGED << stealthPayments, merkleTree, createFailed >>

\* Values a caller writes over a field of a proof: leaves, a digest that is
\* no node of any tree, and the values the proof itself holds.
MerkleTamperValues(p) ==
    LeafValues \cup { OtherDigest, p.leaf, p.root }
    \cup { p.siblings[k] : k \in 1..Len(p.siblings) }

\* new MerkleProof(leaf, siblings, index, root) with one field of p replaced
MerkleTampers(p) ==
    { NoTamper }
    \cup { [NoTamper EXCEPT !.kind = kind, !.bytes = b] :
             kind \in { "leaf", "root" }, b \in MerkleTamperValues(p) }
    \cup { [NoTamper EXCEPT !.kind = "sibling", !.k = k, !.bytes = b] :
             k \in 1..Len(p.siblings), b \in MerkleTamperValues(p) }

MerkleTamper(p, t) ==
    CASE t.kind = "none" -> p
      [] t.kind = "leaf" -> [p EXCEPT !.leaf = t.bytes]
      [] t.kind = "root" -> [p EXCEPT !.root = t.bytes]
      [] t.kind = "sibling" -> [p EXCEPT !.siblings[t.k] = t.bytes]
      [] t.kind = "index" -> [p EXCEPT !.index = t.k]
      [] t.kind = "internal" ->
             [p EXCEPT !.leaf = PathHash(<< p.siblings[1] >>, 1, p.leaf, p.index),
                       !.siblings = Tail(p.siblings),
                       !.index = p.index \div 2]

\* proof.verify() on the proof returned last, changed by t
MerkleProofVerify(t) ==
    /\ ServicesFrame
    /\ proof # <<>>
    /\ call' = [NoCall EXCEPT !.op = "verify", !.tamper = t]
    /\ result' = [NoResult EXCEPT !.valid = MerkleVerify(MerkleTamper(proof[1], t))]
    /\ UNCHANGED << stealthPayments, merkleTree, createFailed, proof >>

MerkleInit ==
    /\ ServicesNew
    /\ stealthPayments = <<>>
    /\ merkleTree = <<>>
    /\ createFailed = FALSE
    /\ call = NoCall
    /\ result = NoResult
    /\ proof = <<>>

MerkleNext ==
    \/ \E leaves \in SeqUpTo(LeafValues, MaxLeaves) : MerkleNew(leaves)
    \/ /\ merkleTree # <<>>
       /\ \E index \in -1..Len(merkleTree[1]) : MerkleProofOf(index)
    \/ /\ proof # <<>>
       /\ \E t \in MerkleTampers(proof[1]) : MerkleProofVerify(t)

MerkleSpec == MerkleInit /\ [][MerkleNext]_vars

\* C11: for a tree over a non-empty sequence of leaves, of odd length too,
\* getProof(i) for every i in 0 .. leafCount - 1 returns a proof, and the
\* proof verifies.
C11_ProofOfEveryLeafVerifies ==
    ( /\ call.op = "getProof"
      /\ call.index >= 0 /\ call.index < Len(merkleTree[1]) )
    => ( /\ result.outcome = "ok"
         /\ proof # <<>>
         /\ proof[1].leaf = merkleTree[1][call.index + 1]
         /\ MerkleVerify(proof[1]) )

\* The proof of the unpaired third leaf of three.
C11_Witness ==
    /\ call.op = "getProof"
    /\ Len(merkleTree[1]) = 3 /\ call.index = 2
    /\ proof # <<>> /\ MerkleVerify(proof[1])

\* C12: a proof returned by getProof whose leaf, one sibling or root was
\* replaced by a different value does not verify (SHA-256 collision free).
C12_TamperedProofRejected ==
    ( /\ call.op = "verify"
      /\ \/ call.tamper.kind = "leaf" /\ call.tamper.bytes # proof[1].leaf
         \/ call.tamper.kind = "root" /\ call.tamper.bytes # proof[1].root
         \/ /\ call.tamper.kind = "sibling"
            /\ call.tamper.bytes # proof[1].siblings[call.tamper.k] )
    => result.valid = FALSE

\* The second sibling of a proof with an odd index replaced by the leaf.
C12_Witness ==
    /\ call.op = "verify"
    /\ call.tamper.kind = "sibling" /\ call.tamper.k = 2
    /\ proof[1].index = 1
    /\ call.tamper.bytes = proof[1].leaf
    /\ call.tamper.bytes # proof[1].siblings[2]
    /\ result.valid = FALSE

\* C13: the root of a tree built from the single leaf x is H(x).
C13_SingleLeafRootIsHash ==
    (call.op = "MerkleTree" /\ Len(call.inputs) = 1)
    => MerkleGetRoot(merkleTree) = << sha256(call.inputs[1]) >>

(***************************************************************************)
(* FieldElement on its own: a caller constructs elements and applies the    *)
(* operations to the element it got last (result.element) and to operands   *)
(* of its choice.  call is the last call, result what it returned.          *)
(***************************************************************************)

\* The number a raw byte word spells.
ByteValue == [w \in ByteWord |-> CHOOSE i \in 0..255 : ToString(i) = w] @@ << >>

\* value = (value << 8n) + BigInt(bytes[i]), over the bytes from k on
RECURSIVE BytesToInt(_, _, _)
BytesToInt(bytes, k, value) ==
    IF k > Len(bytes) THEN value
    ELSE BytesToInt(bytes, k + 1, value * 256 + ByteValue[bytes[k]])

\* FieldElement.fromBytes(bytes, modulus)
FieldFromBytes(bytes, modulus) == FieldElement(BytesToInt(bytes, 1, 0), modulus)

\* div: this.mul(other.inverse())
FieldDiv(a, b) == FieldMul(a, FieldInverse(b))

\* pow's loop: square and multiply
RECURSIVE PowLoop(_, _, _)
PowLoop(result0, base, exponent) ==
    IF ~(exponent > 0) THEN result0
    ELSE PowLoop(IF exponent % 2 = 1 THEN FieldMul(result0, base) ELSE result0,
                 FieldMul(base, base), exponent \div 2)

\* pow(exponent)
FieldPow(a, exponent) ==
    IF exponent < 0
    THEN LET inv == FieldInverse(a)
         IN  IF IsThrown(inv) THEN inv
             ELSE PowLoop(FieldOne(inv.modulus), inv, 0 - exponent)
    ELSE PowLoop(FieldOne(a.modulus), a, exponent)

\* max.toString(16).length
RECURSIVE HexLength(_)
HexLength(n) == IF n < 16 THEN 1 ELSE 1 + HexLength(n \div 16)

\* random: byteLength = Math.ceil(max.toString(16).length / 2)
RandomByteLength(modulus) == (HexLength(modulus - 1) + 1) \div 2

\* What getRandomValues may fill the array with: every byte string of the length.
RandomByteStrings(modulus) == [1..RandomByteLength(modulus) -> ByteWord]

\* FieldElement.random(modulus), randomBytes being what getRandomValues wrote
FieldRandom(modulus, randomBytes) ==
    LET max == modulus - 1
        randomValue == JsRem(BytesToInt(randomBytes, 1, 0), max + 1)
    IN  FieldElement(randomValue, modulus)

\* Moduli given to the constructors: the degenerate 1, primes (also the
\* default one and one above 256, whose elements take two bytes) and a
\* composite.
FieldModuli == { 1, 7, 12, SHADOW_PRIME, 257 }

\* Values given to the constructor: negative, in range, and >= the modulus.
FieldValues == { -8, -1, 0, 1, 3, 256, 300 }

\* The elements a caller passes as the other operand.
FieldOperands == { FieldElement(v, m) : v \in { -1, 0, 1, 3 }, m \in { 7, 12, SHADOW_PRIME } }

PowExponents == { -2, -1, 0, 1, 2, 5 }

\* Byte strings given to fromBytes, besides what toBytes returned.
FromBytesInputs == { <<>>, << "255" >>, << "1", "0" >>, << "255", "255" >> }

\* Bytes getRandomValues writes in the model's calls of random.
RandomDrawBytes == { "0", "1", "6", "7", "250", "251", "255" }

\* No element: the value of result.element before any was constructed.
NoElement == [value |-> 0, modulus |-> 0]

FieldNoCall == [op |-> "none", a |-> NoElement, b |-> NoElement, exponent |-> 0,
                value |-> 0, modulus |-> 0, bytes |-> <<>>]

FieldNoResult == [element |-> NoElement, bytes |-> <<>>]

FieldInit ==
    /\ ServicesNew
    /\ stealthPayments = <<>>
    /\ merkleTree = <<>>
    /\ createFailed = FALSE
    /\ proof = <<>>
    /\ call = FieldNoCall
    /\ result = FieldNoResult

\* The ledger state has no part in the field operations.
FieldFrame ==
    /\ UNCHANGED << stealthPayments, merkleTree, createFailed, proof >>
    /\ ServicesFrame

\* The element the last call returned is the receiver of the next.
HasReceiver == ~IsThrown(result.element)

\* new FieldElement(value, modulus)
FieldNew(value, modulus) ==
    /\ call' = [FieldNoCall EXCEPT !.op = "new", !.value = value, !.modulus = modulus]
    /\ result' = [FieldNoResult EXCEPT !.element = FieldElement(value, modulus)]
    /\ FieldFrame

\* FieldElement.zero(modulus)
FieldZeroOp(modulus) ==
    /\ call' = [FieldNoCall EXCEPT !.op = "zero", !.modulus = modulus]
    /\ result' = [FieldNoResult EXCEPT !.element = FieldZero(modulus)]
    /\ FieldFrame

\* FieldElement.one(modulus)
FieldOneOp(modulus) ==
    /\ call' = [FieldNoCall EXCEPT !.op = "one", !.modulus = modulus]
    /\ result' = [FieldNoResult EXCEPT !.element = FieldOne(modulus)]
    /\ FieldFrame

\* a.add(b)
FieldAddOp(b) ==
    /\ HasReceiver
    /\ call' = [FieldNoCall EXCEPT !.op = "add", !.a = result.element, !.b = b]
    /\ result' = [FieldNoResult EXCEPT !.element = FieldAdd(result.element, b)]
    /\ FieldFrame

\* a.sub(b)
FieldSubOp(b) ==
    /\ HasReceiver
    /\ call' = [FieldNoCall EXCEPT !.op = "sub", !.a = result.element, !.b = b]
    /\ result' = [FieldNoResult EXCEPT !.element = FieldSub(result.element, b)]
    /\ FieldFrame

\* a.mul(b)
FieldMulOp(b) ==
    /\ HasReceiver
    /\ call' = [FieldNoCall EXCEPT !.op = "mul", !.a = result.element, !.b = b]
    /\ result' = [FieldNoResult EXCEPT !.element = FieldMul(result.element, b)]
    /\ FieldFrame

\* a.div(b)
FieldDivOp(b) ==
    /\ HasReceiver
    /\ call' = [FieldNoCall EXCEPT !.op = "div", !.a = result.element, !.b = b]
    /\ result' = [FieldNoResult EXCEPT !.element = FieldDiv(result.element, b)]
    /\ FieldFrame

\* a.pow(exponent)
FieldPowOp(exponent) ==
    /\ HasReceiver
    /\ call' = [FieldNoCall EXCEPT !.op = "pow", !.a = result.element,
                                   !.exponent = exponent]
    /\ result' = [FieldNoResult EXCEPT !.element = FieldPow(result.element, exponent)]
    /\ FieldFrame

\* a.inverse()
FieldInverseOp ==
    /\ HasReceiver
    /\ call' = [FieldNoCall EXCEPT !.op = "inverse", !.a = result.element]
    /\ result' = [FieldNoResult EXCEPT !.element = FieldInverse(result.element)]
    /\ FieldFrame

\* a.neg()
FieldNegOp ==
    /\ HasReceiver
    /\ call' = [FieldNoCall EXCEPT !.op = "neg", !.a = result.element]
    /\ result' = [FieldNoResult EXCEPT !.element = FieldNeg(result.element)]
    /\ FieldFrame

\* a.toBytes(): a stays the caller's element
FieldToBytesOp ==
    /\ HasReceiver
    /\ call' = [FieldNoCall EXCEPT !.op = "toBytes", !.a = result.element]
    /\ result' = [element |-> result.element, bytes |-> FieldToBytes(result.element)]
    /\ FieldFrame

\* FieldElement.fromBytes(bytes, modulus)
FieldFromBytesOp(bytes, modulus) ==
    /\ call' = [FieldNoCall EXCEPT !.op = "fromBytes", !.bytes = bytes,
                                   !.modulus = modulus]
    /\ result' = [FieldNoResult EXCEPT !.element = FieldFromBytes(bytes, modulus)]
    /\ FieldFrame

\* FieldElement.random(modulus)
FieldRandomOp(modulus, randomBytes) ==
    /\ call' = [FieldNoCall EXCEPT !.op = "random", !.modulus = modulus,
                                   !.bytes = randomBytes]
    /\ result' = [FieldNoResult EXCEPT !.element = FieldRandom(modulus, randomBytes)]
    /\ FieldFrame

FieldNext ==
    \/ \E value \in FieldValues, modulus \in FieldModuli : FieldNew(value, modulus)
    \/ \E modulus \in FieldModuli : FieldZeroOp(modulus)
    \/ \E modulus \in FieldModuli : FieldOneOp(modulus)
    \/ \E b \in FieldOperands : FieldAddOp(b)
    \/ \E b \in FieldOperands : FieldSubOp(b)
    \/ \E b \in FieldOperands : FieldMulOp(b)
    \/ \E b \in FieldOperands : FieldDivOp(b)
    \/ \E exponent \in PowExponents : FieldPowOp(exponent)
    \/ FieldInverseOp
    \/ FieldNegOp
    \/ FieldToBytesOp
    \/ \E bytes \in FromBytesInputs \cup { result.bytes }, modulus \in FieldModuli :
           FieldFromBytesOp(bytes, modulus)
    \/ \E modulus \in FieldModuli :
           \E randomBytes \in [1..RandomByteLength(modulus) -> RandomDrawBytes] :
               FieldRandomOp(modulus, randomBytes)

FieldSpec == FieldInit /\ [][FieldNext]_vars

InRange(a) == 0 <= a.value /\ a.value < a.modulus

\* C14: every element constructed, and every element add, sub, mul, div, pow,
\* inverse, neg, fromBytes, random, zero or one returns, has
\* 0 <= value < modulus, whatever the value given.
C14_ValueInRange ==
    /\ ~IsThrown(result.element) => InRange(result.element)
    /\ ~IsThrown(call.a) => InRange(call.a)

\* A negative value normalised by the constructor.
C14_Witness ==
    /\ call.op = "new" /\ call.value = -8 /\ call.modulus = 7
    /\ result.element = [value |-> 6, modulus |-> 7]

IsPrime(m) == m > 1 /\ \A d \in 2..(m - 1) : m % d # 0

\* C15: over a prime modulus, the inverse of a nonzero a is an element b
\* with a.mul(b) = one, and the inverse of zero is the NotInvertible error.
C15_InverseOverPrime ==
    (call.op = "inverse" /\ IsPrime(call.a.modulus)) =>
        IF call.a.value = 0
        THEN result.element = NotInvertible
        ELSE /\ ~IsThrown(result.element)
             /\ FieldEquals(FieldMul(call.a, result.element), FieldOne(call.a.modulus))

\* The inverse of 3 in the default field.
C15_Witness ==
    /\ call.op = "inverse"
    /\ call.a = [value |-> 3, modulus |-> SHADOW_PRIME]
    /\ result.element = [value |-> 84, modulus |-> SHADOW_PRIME]

\* C16: add, sub and mul of two elements with different moduli fail with
\* the FieldMismatch error.
C16_MismatchRejected ==
    (call.op \in { "add", "sub", "mul" } /\ call.a.modulus # call.b.modulus)
    => result.element = FieldMismatch

\* A subtraction across two moduli.
C16_Witness ==
    /\ call.op = "sub"
    /\ call.a.modulus = 7 /\ call.b.modulus = SHADOW_PRIME
    /\ result.element = FieldMismatch

\* C17: toBytes returns 32 bytes, big-endian with zeros on the left, and
\* fromBytes of them with the element's modulus returns the element.
C17_BytesRoundTrip ==
    [][ /\ call'.op = "toBytes" =>
               /\ Len(result'.bytes) = 32
               /\ \A i \in 1..28 : result'.bytes[i] = "0"
               /\ \A j \in 0..3 : result'.bytes[32 - j] =
                      ToString((call'.a.value \div (256 ^ j)) % 256)
        /\ ( /\ call.op = "toBytes" /\ call'.op = "fromBytes"
             /\ call'.bytes = result.bytes
             /\ call'.modulus = call.a.modulus )
           => result'.element = call.a ]_vars

\* 256 in the field of 257 elements read back from its bytes 1, 0.
C17_Witness ==
    /\ call.op = "fromBytes"
    /\ call.modulus = 257
    /\ call.bytes = ZeroBytes(30) \o << "1", "0" >>
    /\ result.element = [value |-> 256, modulus |-> 257]

\* The byte strings random maps to the value v of the field of the modulus.
RandomPreimages(modulus, v) ==
    { b \in RandomByteStrings(modulus) : FieldRandom(modulus, b).value = v }

\* C18: random is uniform: every value of the field is returned for the
\* same number of byte strings (those spelling a number >= the modulus
\* being redrawn, not reduced).
C18_RandomUniform ==
    call.op = "random" =>
        Cardinality(RandomPreimages(call.modulus, result.element.value))
            = Cardinality(RandomPreimages(call.modulus, call.modulus - 1))

(***************************************************************************)
(* Polynomial on its own: a caller constructs a polynomial (from            *)
(* coefficients, by zero, one or interpolate) and applies up to MaxChain    *)
(* operations to it, each to the polynomial the one before returned.        *)
(***************************************************************************)

\* Longest coefficient list given to the constructor.
MaxCoefficients == 3
\* Most operations applied one after the other to a constructed polynomial.
MaxChain == 2

\* Moduli of the coefficients and points: the default prime and another one.
PolyModuli == { 7, SHADOW_PRIME }

\* Coefficient lists given to the constructor: over one modulus each, with
\* zeros in every position.
CoefficientLists ==
    UNION { SeqUpTo({ FieldElement(v, m) : v \in { 0, 1, m - 1 } }, MaxCoefficients) :
              m \in PolyModuli }

\* The polynomials given as the other operand: the zero polynomial, and
\* polynomials over either modulus.
PolyArguments ==
    { Polynomial(<< >>),
      Polynomial(<< FieldElement(250, SHADOW_PRIME) >>),
      Polynomial(<< FieldElement(1, SHADOW_PRIME), FieldElement(1, SHADOW_PRIME) >>),
      Polynomial(<< FieldElement(1, 7), FieldElement(1, 7) >>) }

\* Points of evaluation
EvaluationPoints == { FieldElement(0, SHADOW_PRIME), FieldElement(3, SHADOW_PRIME),
                      FieldElement(3, 7) }

\* The x coordinates of the point lists given to interpolate: distinct, in
\* and out of order, and with a coordinate given twice.
InterpolationXs ==
    { << >>, << 0 >>, << 0, 1 >>, << 1, 0 >>, << 0, 1, 2 >>, << 2, 0, 1 >>,
      << 1, 1 >>, << 0, 1, 1 >> }

\* The y coordinates.
InterpolationYs == { 0, 1, 2, 3 }

\* The point lists: <<x, y>> pairs of elements of one modulus.
InterpolationInputs ==
    UNION { { Array([i \in 1..Len(xs) |->
                       << FieldElement(xs[i], m), FieldElement(ys[i], m) >>]) :
                ys \in [1..Len(xs) -> InterpolationYs] } :
              xs \in InterpolationXs, m \in PolyModuli }

PolyNoCall == [op |-> "none", depth |-> 0, p |-> << >>, q |-> << >>,
               x |-> NoElement, coefficients |-> << >>, points |-> << >>,
               modulus |-> 0]

PolyNoResult == [poly |-> << >>, value |-> NoElement]

PolyInit ==
    /\ ServicesNew
    /\ stealthPayments = <<>>
    /\ merkleTree = <<>>
    /\ createFailed = FALSE
    /\ proof = <<>>
    /\ call = PolyNoCall
    /\ result = PolyNoResult

\* The ledger state has no part in the polynomial operations.
PolyFrame ==
    /\ UNCHANGED << stealthPayments, merkleTree, createFailed, proof >>
    /\ ServicesFrame

\* The caller holds no polynomial yet.
NoPolynomialYet == call.op = "none"

\* The polynomial the last call returned is the receiver of the next.
HasPolynomial ==
    /\ call.op # "none"
    /\ ~PolyThrown(result.poly)
    /\ call.depth < MaxChain

\* new Polynomial(coefficients)
PolyNew(coefficients) ==
    /\ NoPolynomialYet
    /\ call' = [PolyNoCall EXCEPT !.op = "new", !.coefficients = coefficients]
    /\ result' = [PolyNoResult EXCEPT !.poly = Polynomial(coefficients)]
    /\ PolyFrame

\* Polynomial.zero(modulus)
PolyZeroOp(modulus) ==
    /\ NoPolynomialYet
    /\ call' = [PolyNoCall EXCEPT !.op = "zero", !.modulus = modulus]
    /\ result' = [PolyNoResult EXCEPT !.poly = PolyZero(modulus)]
    /\ PolyFrame

\* Polynomial.one(modulus)
PolyOneOp(modulus) ==
    /\ NoPolynomialYet
    /\ call' = [PolyNoCall EXCEPT !.op = "one", !.modulus = modulus]
    /\ result' = [PolyNoResult EXCEPT !.poly = PolyOne(modulus)]
    /\ PolyFrame

\* Polynomial.interpolate(points)
PolyInterpolateOp(points) ==
    /\ NoPolynomialYet
    /\ call' = [PolyNoCall EXCEPT !.op = "interpolate", !.points = points]
    /\ result' = [PolyNoResult EXCEPT !.poly = PolyInterpolate(points)]
    /\ PolyFrame

\* p.add(q)
PolyAddOp(q) ==
    /\ HasPolynomial
    /\ call' = [PolyNoCall EXCEPT !.op = "add", !.depth = call.depth + 1,
                                  !.p = result.poly, !.q = q]
    /\ result' = [PolyNoResult EXCEPT !.poly = PolyAdd(result.poly, q)]
    /\ PolyFrame

\* p.sub(q)
PolySubOp(q) ==
    /\ HasPolynomial
    /\ call' = [PolyNoCall EXCEPT !.op = "sub", !.depth = call.depth + 1,
                                  !.p = result.poly, !.q = q]
    /\ result' = [PolyNoResult EXCEPT !.poly = PolySub(result.poly, q)]
    /\ PolyFrame

\* p.mul(q)
PolyMulOp(q) ==
    /\ HasPolynomial
    /\ call' = [PolyNoCall EXCEPT !.op = "mul", !.depth = call.depth + 1,
                                  !.p = result.poly, !.q = q]
    /\ result' = [PolyNoResult EXCEPT !.poly = PolyMul(result.poly, q)]
    /\ PolyFrame

\* p.evaluate(x): p stays the caller's polynomial
PolyEvaluateOp(x) ==
    /\ HasPolynomial
    /\ call' = [PolyNoCall EXCEPT !.op = "evaluate", !.depth = call.depth + 1,
                                  !.p = result.poly, !.x = x]
    /\ result' = [poly |-> result.poly, value |-> PolyEvaluate(result.poly, x)]
    /\ PolyFrame

PolyNext ==
    \/ \E coefficients \in CoefficientLists : PolyNew(coefficients)
    \/ \E modulus \in PolyModuli : PolyZeroOp(modulus)
    \/ \E modulus \in PolyModuli : PolyOneOp(modulus)
    \/ \E points \in InterpolationInputs : PolyInterpolateOp(points)
    \/ \E q \in PolyArguments : PolyAddOp(q)
    \/ \E q \in PolyArguments : PolySubOp(q)
    \/ \E q \in PolyArguments : PolyMulOp(q)
    \/ \E x \in EvaluationPoints : PolyEvaluateOp(x)

PolySpec == PolyInit /\ [][PolyNext]_vars

\* The points are over one prime modulus and their x coordinates differ.
DistinctPointsOverPrime(points) ==
    /\ Len(points) > 0
    /\ IsPrime(points[1][1].modulus)
    /\ \A i \in 1..Len(points) :
           /\ points[i][1].modulus = points[1][1].modulus
           /\ points[i][2].modulus = points[1][1].modulus
    /\ \A i, j \in 1..Len(points) : i # j => points[i][1] # points[j][1]

\* The polynomial p (no error) goes through the points, with degree below
\* their number.
Interpolates(p, points) ==
    /\ ~PolyThrown(p)
    /\ PolyDegree(p) < Len(points)
    /\ \A i \in 1..Len(points) : PolyEvaluate(p, points[i][1]) = points[i][2]

\* C19: for points with distinct x over one prime modulus, any prime,
\* interpolate returns a polynomial of degree below the number of points
\* that takes the value y at every x.
C19_InterpolatesOverAnyPrime ==
    (call.op = "interpolate" /\ DistinctPointsOverPrime(call.points))
    => Interpolates(result.poly, call.points)

\* The coefficient list has no zero at its end, or is the single zero.
Trimmed(p) ==
    /\ Len(p) > 0
    /\ \/ ~FieldIsZero(p[Len(p)])
       \/ Len(p) = 1

\* C20: every polynomial constructed or returned by add, sub, mul,
\* interpolate, zero or one has a coefficient list that is not empty and has
\* no zero at its end, but for the zero polynomial, which is [0] and has
\* degree 0.
C20_TrimmedNeverEmpty ==
    (call.op \in { "new", "zero", "one", "interpolate", "add", "sub", "mul" }
       /\ ~PolyThrown(result.poly))
    => ( /\ Trimmed(result.poly)
         /\ (\A i \in 1..Len(result.poly) : FieldIsZero(result.poly[i]))
                => PolyDegree(result.poly) = 0 )

\* Two of the points have the same x coordinate.
SharesX(points) ==
    \E i, j \in 1..Len(points) : i # j /\ points[i][1] = points[j][1]

\* C21: interpolate fails with EmptyInterpolationSet on no points, and with
\* NotInvertible whenever two of the points share an x coordinate.
C21_InterpolateFailures ==
    call.op = "interpolate" =>
        /\ Len(call.points) = 0 => result.poly = << EmptyInterpolationSet >>
        /\ SharesX(call.points) => result.poly = << NotInvertible >>

\* C21 over the default prime alone.
C21_DefaultPrime ==
    (call.op = "interpolate" /\ Len(call.points) > 0
       /\ call.points[1][1].modulus = SHADOW_PRIME /\ SharesX(call.points))
    => result.poly = << NotInvertible >>

(***************************************************************************)
(* AIReputationEngine                                                       *)
(*                                                                         *)
(* A reputation score is a JavaScript number.  The model holds it exactly,  *)
(* as an integer count of 1/ScoreScale points; the weights it draws are     *)
(* multiples of 1/ScoreScale, so every sum and product is exact in both.    *)
(***************************************************************************)

\* Units per reputation point: the weight 0.5 of addVerifiedAttribute is 1.
ScoreScale == 2
\* The upper end of the normalised score, in points.
MaxScore == 100
\* Most updateReputation applications counted by the identities of the model,
\* all together.
MaxInteractions == 2
\* Latest clock reading of the model.
MaxClock == 1

Min(a, b) == IF a < b THEN a ELSE b

\* Map.set(key, value)
MapSet(map, key, value) ==
    [k \in DOMAIN map \cup {key} |-> IF k = key THEN value ELSE map[k]]

\* Date.now() at a call: the clock never runs backwards.
ClockReadings == { t \in now..(now + 1) : t <= MaxClock }

\* The n readings of Date.now() one call makes, in the order it makes them.
ClockSequences(n) ==
    { readings \in [1..n -> ClockReadings] :
          \A i \in 1..(n - 1) : readings[i] <= readings[i + 1] }

\* The normalisation without its upper end.
NormalizeScoreFloorOnly(score) == Max(0, score)

\* Math.min(100, Math.max(0, score))
NormalizeScore(score) == Min(MaxScore * ScoreScale, Max(0, score))

\* The switch of updateReputation, then the normalisation.
ScoreAfter(score, interactionType, weight) ==
    NormalizeScore(
        CASE interactionType = "payment" -> score + 1 * weight
          [] interactionType = "verification" -> score + 2 * weight
          [] interactionType = "compliance" -> score + 3 * weight
          [] interactionType = "violation" -> Max(0, score - 10 * weight))

\* updateReputation on a shadow that was found
UpdatedShadow(shadow, interactionType, weight, time) ==
    [shadow EXCEPT !.onChainInteractions = @ + 1,
                   !.lastUpdated = time,
                   !.reputationScore = ScoreAfter(@, interactionType, weight)]

Seeds == { << "7" >>, << "9" >> }
InteractionTypes == { "payment", "verification", "compliance", "violation" }
\* -1.0, 1.0 (the default) and 40.0
Weights == { -2, 2, 80 }
\* Pseudonyms callers pass: those of the seeds and one that is no identity's.
Pseudonyms == { sha256(seed) : seed \in Seeds } \cup { sha256(<< "99" >>) }

EngineNoCall == [op |-> "new", pseudonym |-> <<>>, interactionType |-> "none",
                 weight |-> 0]
EngineNoResult == [outcome |-> "ok"]

EngineInit ==
    /\ ServicesNew
    /\ stealthPayments = <<>>
    /\ merkleTree = <<>>
    /\ createFailed = FALSE
    /\ call = EngineNoCall
    /\ result = EngineNoResult
    /\ proof = <<>>

\* The onChainInteractions of the identities stored under the pseudonyms, summed.
RECURSIVE InteractionsOf(_)
InteractionsOf(pseudonyms) ==
    IF pseudonyms = {} THEN 0
    ELSE LET p == CHOOSE q \in pseudonyms : TRUE
         IN  identities[p].onChainInteractions + InteractionsOf(pseudonyms \ {p})

EngineFrame ==
    UNCHANGED << stealthPayments, merkleTree, createFailed, proof,
                 merchants, invoices, receipts, requests, history >>

\* createIdentityShadow(seed): Date.now() is read for createdAt, then for
\* lastUpdated; a shadow already stored under the pseudonym is replaced.
CreateIdentityShadow(seed, readings) ==
    LET pseudonym == sha256(seed)
        shadow == [pseudonym |-> pseudonym, reputationScore |-> 0,
                   onChainInteractions |-> 0, verifiedAttributes |-> <<>>,
                   createdAt |-> readings[1], lastUpdated |-> readings[2]]
    IN  /\ now' = readings[2]
        /\ identities' = MapSet(identities, pseudonym, shadow)
        /\ call' = [EngineNoCall EXCEPT !.op = "createIdentityShadow",
                                        !.pseudonym = pseudonym]
        /\ result' = EngineNoResult
        /\ EngineFrame

\* updateReputation(pseudonym, interactionType, weight): Date.now() is read
\* once the shadow was found.
UpdateReputation(pseudonym, interactionType, weight, time) ==
    /\ InteractionsOf(DOMAIN identities) < MaxInteractions
    /\ call' = [op |-> "updateReputation", pseudonym |-> pseudonym,
                interactionType |-> interactionType, weight |-> weight]
    /\ IF pseudonym \notin DOMAIN identities
       THEN /\ result' = [outcome |-> "Error"]
            /\ UNCHANGED << identities, now >>
       ELSE /\ identities' = MapSet(identities, pseudonym,
                                 UpdatedShadow(identities[pseudonym],
                                               interactionType, weight, time))
            /\ now' = time
            /\ result' = EngineNoResult
    /\ EngineFrame

\* addVerifiedAttribute(pseudonym, attributeType, zkProof): the push, then
\* updateReputation(pseudonym, 'verification', 0.5).  Date.now() is read for
\* verifiedAt, for lastUpdated, and again by updateReputation.
AddVerifiedAttribute(pseudonym, attributeType, zkProof, readings) ==
    /\ InteractionsOf(DOMAIN identities) < MaxInteractions
    /\ call' = [op |-> "addVerifiedAttribute", pseudonym |-> pseudonym,
                interactionType |-> "verification", weight |-> 1]
    /\ IF pseudonym \notin DOMAIN identities
       THEN /\ result' = [outcome |-> "Error"]
            /\ UNCHANGED << identities, now >>
       ELSE LET attribute == [attributeType |-> attributeType, zkProof |-> zkProof,
                              verifiedAt |-> readings[1]]
                pushed == [identities[pseudonym] EXCEPT
                              !.verifiedAttributes = Append(@, attribute),
                              !.lastUpdated = readings[2]]
            IN  /\ identities' = MapSet(identities, pseudonym,
                                     UpdatedShadow(pushed, "verification", 1,
                                                   readings[3]))
                /\ now' = readings[3]
                /\ result' = EngineNoResult
    /\ EngineFrame

\* The calls of an engine under a clock that never runs backwards.
EngineNext ==
    \/ \E seed \in Seeds, readings \in ClockSequences(2) :
          CreateIdentityShadow(seed, readings)
    \/ \E pseudonym \in Pseudonyms, type \in InteractionTypes, weight \in Weights,
          t \in ClockReadings :
          UpdateReputation(pseudonym, type, weight, t)
    \/ \E pseudonym \in Pseudonyms, readings \in ClockSequences(3) :
          AddVerifiedAttribute(pseudonym, "kyc", << "123" >>, readings)

EngineSpec == EngineInit /\ [][EngineNext]_vars

\* The last call replaced the shadow stored under the pseudonym by a new one.
ShadowCreated(p) ==
    call'.op = "createIdentityShadow" /\ call'.pseudonym = p

\* The shadow the last call named was found, before and after the call.
ShadowUpdated ==
    /\ call'.pseudonym \in DOMAIN identities
    /\ call'.op \in { "updateReputation", "addVerifiedAttribute" }

\* C23: every identity's score stays within 0 .. 100, and each application of
\* updateReputation to an identity (one per updateReputation call, one per
\* addVerifiedAttribute call) adds exactly one to its onChainInteractions,
\* which starts at 0 when createIdentityShadow makes the identity and which
\* nothing else changes.
C23_ScoreRangeAndCount ==
    /\ [](\A p \in DOMAIN identities :
            /\ 0 <= identities[p].reputationScore
            /\ identities[p].reputationScore <= MaxScore * ScoreScale)
    /\ [][\A p \in DOMAIN identities' :
            identities'[p].onChainInteractions =
                IF p \notin DOMAIN identities \/ ShadowCreated(p) THEN 0
                ELSE identities[p].onChainInteractions
                     + (IF ShadowUpdated /\ call'.pseudonym = p THEN 1 ELSE 0)]_vars

\* An identity at the upper end of the range after several updates, one of
\* them through addVerifiedAttribute.
C23_Witness ==
    \E p \in DOMAIN identities :
        /\ identities[p].reputationScore = MaxScore * ScoreScale
        /\ identities[p].onChainInteractions = MaxInteractions
        /\ Len(identities[p].verifiedAttributes) = 1
        /\ call.op = "updateReputation" /\ call.interactionType = "compliance"

(***************************************************************************)
(* PrivateMerchantBridge                                                    *)
(*                                                                         *)
(* The bridge owns a ledger (stealthPayments, merkleTree) and a reputation  *)
(* engine (identities) of its own, both private; a merchantId is a byte     *)
(* string (its UTF-8 encoding), an optional value is <<>> or <<value>>.     *)
(***************************************************************************)

\* BigInt(Math.floor(score * 1000)) as an element of the field
ScoreField(score) == FieldElement((score * 1000) \div ScoreScale, SHADOW_PRIME)

\* H(pseudonym || score || minScore): publicCommitment, and zkProof as well
ReputationCommitment(pseudonym, score, minScore) ==
    sha256(pseudonym \o FieldToBytes(ScoreField(score))
           \o FieldToBytes(IF minScore = <<>> THEN FieldZero(SHADOW_PRIME)
                           ELSE ScoreField(minScore[1])))

\* generateReputationProof(pseudonym, minScore): <<>> when it throws
GenerateReputationProof(pseudonym, minScore) ==
    IF pseudonym \notin DOMAIN identities THEN <<>>
    ELSE LET shadow == identities[pseudonym]
         IN  IF minScore # <<>> /\ shadow.reputationScore < minScore[1] THEN <<>>
             ELSE << [pseudonym |-> pseudonym,
                      reputationScore |-> shadow.reputationScore,
                      zkProof |-> ReputationCommitment(pseudonym,
                                      shadow.reputationScore, minScore),
                      publicCommitment |-> ReputationCommitment(pseudonym,
                                      shadow.reputationScore, minScore)] >>

\* verifyReputationProof(proof, minScore)
VerifyReputationProof(p, minScore) ==
    IF ~BytesEqual(p.publicCommitment,
                   ReputationCommitment(p.pseudonym, p.reputationScore, minScore))
    THEN FALSE
    ELSE IF minScore # <<>> /\ p.reputationScore < minScore[1] THEN FALSE
    ELSE TRUE

\* merchantId.length: the UTF-16 code units of the string whose UTF-8 bytes
\* are given.  Every byte that is no continuation byte (128 .. 191) starts a
\* character; one of four bytes (lead byte 240 or more) takes two units.
Utf16Length(bytes) ==
    Cardinality({ i \in 1..Len(bytes) : ByteValue[bytes[i]] \notin 128..191 })
    + Cardinality({ i \in 1..Len(bytes) : ByteValue[bytes[i]] >= 240 })

\* What generateInvoiceId gives when data.set throws: offset is out of bounds.
RangeError == << "RangeError" >>

\* data.set(bytes, offset), the bytes fitting into data
SetBytes(data, bytes, offset) ==
    Array([i \in 1..Len(data) |->
              IF offset < i /\ i <= offset + Len(bytes) THEN bytes[i - offset]
              ELSE data[i]])

\* generateInvoiceId: the first 16 bytes of the digest, in hexadecimal.  The
\* 32 characters are one word, named after the hashed bytes.  The buffer is
\* sized and laid out by merchantId.length, and filled with the UTF-8 bytes.
GenerateInvoiceId(merchantId, amount, timestamp) ==
    LET length == Utf16Length(merchantId)
        data == ZeroBytes(length + 32 + 8)
    IN  IF Len(merchantId) > Len(data) THEN RangeError
        ELSE LET withId == SetBytes(data, merchantId, 0)
                 withAmount ==
                     SetBytes(withId, FieldToBytes(FieldElement(amount, SHADOW_PRIME)),
                              length)
                 withTimestamp ==
                     SetBytes(withAmount, BigEndianBytes(timestamp, 8), length + 32)
             IN  << "Id(" \o JoinWords(withTimestamp) \o ")" >>

\* sha256(invoiceId || commitment || amount)
SettlementProof(invoiceId, commitment, amount) ==
    sha256(invoiceId \o commitment \o FieldToBytes(FieldElement(amount, SHADOW_PRIME)))

\* verifyReceipt(receipt, expectedRoot)
VerifyReceipt(receipt, expectedRoot) ==
    IF ~VerifyProofResult(receipt.paymentProof, expectedRoot) THEN FALSE
    ELSE IF receipt.reputationProof # <<>>
            /\ ~VerifyReputationProof(receipt.reputationProof[1], <<>>)
    THEN FALSE
    ELSE IF receipt.invoiceId \notin DOMAIN invoices THEN FALSE
    ELSE BytesEqual(receipt.settlementProof,
                    SettlementProof(receipt.invoiceId,
                                    receipt.paymentProof.commitment,
                                    invoices[receipt.invoiceId].amount))

\* Most invoices a bridge of the model holds.
MaxInvoices == 2

\* The merchant ids 'm', 'é' and '€' 21 times over.
MerchantM == << "109" >>
MerchantE == << "195", "169" >>
MerchantLong == Array([i \in 1..63 |-> << "226", "130", "172" >>[((i - 1) % 3) + 1]])
\* Merchants without a reputation requirement, and one that requires 3.0.
MerchantConfigs ==
    { [merchantId |-> MerchantM, stealthAddress |-> AddressA,
       minReputationScore |-> <<>>, acceptedChains |-> { "ethereum", "polygon" }],
      [merchantId |-> MerchantE, stealthAddress |-> AddressB,
       minReputationScore |-> << 3 * ScoreScale >>,
       acceptedChains |-> { "ethereum" }],
      [merchantId |-> MerchantLong, stealthAddress |-> AddressA,
       minReputationScore |-> <<>>, acceptedChains |-> { "ethereum" }] }
MerchantIds == { config.merchantId : config \in MerchantConfigs }
Chains == { "ethereum", "solana" }
\* createInvoice takes any amount; createPayment refuses 0.
InvoiceAmounts == { 0, 1 }
ExpirationSeconds == { 0, 3600 }
CustomerPseudonym == sha256(<< "7" >>)

BridgeNoCall == [op |-> "new", merchantId |-> <<>>, invoiceId |-> <<>>,
                 amount |-> 0, chain |-> "", time |-> 0]
BridgeNoResult == [outcome |-> "ok", invoice |-> <<>>, receipt |-> <<>>]

BridgeInit ==
    /\ ServicesNew
    /\ stealthPayments = <<>>
    /\ merkleTree = <<>>
    /\ createFailed = FALSE
    /\ call = BridgeNoCall
    /\ result = BridgeNoResult
    /\ proof = <<>>

\* registerMerchant(config)
RegisterMerchant(config) ==
    /\ merchants' = MapSet(merchants, config.merchantId, config)
    /\ call' = [BridgeNoCall EXCEPT !.op = "registerMerchant",
                                    !.merchantId = config.merchantId]
    /\ result' = BridgeNoResult
    /\ UNCHANGED << stealthPayments, merkleTree, createFailed, proof, identities,
                    invoices, receipts, requests, now, history >>

\* createInvoice(merchantId, amount, expirationSeconds): Date.now() is read
\* once the merchant was found.
CreateInvoice(merchantId, amount, expirationSeconds, time) ==
    /\ Cardinality(DOMAIN invoices) < MaxInvoices
    /\ call' = [BridgeNoCall EXCEPT !.op = "createInvoice",
                                    !.merchantId = merchantId,
                                    !.amount = amount, !.time = time]
    /\ IF merchantId \notin DOMAIN merchants
       THEN /\ result' = [BridgeNoResult EXCEPT !.outcome = "Error"]
            /\ UNCHANGED << invoices, now >>
       ELSE LET invoiceId == GenerateInvoiceId(merchantId, amount, time)
                invoice == [invoiceId |-> invoiceId, amount |-> amount,
                            stealthAddress |-> merchants[merchantId].stealthAddress,
                            merchantId |-> merchantId, timestamp |-> time,
                            expiration |-> time + expirationSeconds * 1000]
            IN  /\ now' = time
                /\ IF invoiceId = RangeError
                   THEN /\ result' = [BridgeNoResult EXCEPT !.outcome = "RangeError"]
                        /\ UNCHANGED invoices
                   ELSE /\ invoices' = MapSet(invoices, invoiceId, invoice)
                        /\ result' = [BridgeNoResult EXCEPT !.invoice = << invoice >>]
    /\ UNCHANGED << stealthPayments, merkleTree, createFailed, proof, identities,
                    merchants, receipts, requests, history >>

\* processPayment(invoiceId, senderPseudonym, amount, chain).  The checks
\* throw in the order of the source; createPayment has pushed and rebuilt
\* before generateProof and updateReputation run.  Date.now() is read for the
\* expiry check, for the payment's timestamp, by updateReputation and for the
\* receipt's timestamp: readings[1] .. readings[4].
ProcessPayment(invoiceId, senderPseudonym, amount, chain, draws, readings) ==
    /\ Len(stealthPayments) < MaxPayments
    /\ call' = [BridgeNoCall EXCEPT !.op = "processPayment",
                                    !.invoiceId = invoiceId, !.amount = amount,
                                    !.chain = chain, !.time = readings[1]]
    /\ UNCHANGED << proof, merchants, invoices, requests, history >>
    /\ LET failed(time) ==
               /\ result' = [BridgeNoResult EXCEPT !.outcome = "Error"]
               /\ now' = time
               /\ UNCHANGED << stealthPayments, merkleTree, createFailed,
                               identities, receipts >>
       IN
       IF invoiceId \notin DOMAIN invoices THEN failed(now)
       ELSE IF invoices[invoiceId].merchantId \notin DOMAIN merchants
       THEN failed(now)
       ELSE LET invoice == invoices[invoiceId]
                merchant == merchants[invoice.merchantId]
                minScore == merchant.minReputationScore
                reputationProof ==
                    IF minScore = <<>> THEN <<>>
                    ELSE GenerateReputationProof(senderPseudonym, minScore)
                in == PaymentInput(invoice.stealthAddress, amount, readings[2])
            IN
            IF readings[1] > invoice.expiration THEN failed(readings[1])
            ELSE IF amount # invoice.amount THEN failed(readings[1])
            ELSE IF chain \notin merchant.acceptedChains THEN failed(readings[1])
            ELSE IF minScore # <<>> /\ reputationProof = <<>>
            THEN failed(readings[1])
            ELSE IF minScore # <<>>
                    /\ ~VerifyReputationProof(reputationProof[1], minScore)
            THEN failed(readings[1])
            ELSE IF ~InputValid(in)
            THEN /\ result' = [BridgeNoResult EXCEPT !.outcome = "ValidationError"]
                 /\ createFailed' = TRUE
                 /\ now' = readings[2]
                 /\ UNCHANGED << stealthPayments, merkleTree, identities, receipts >>
            ELSE
            LET payment == MakePayment(in)
                pushed == Append(stealthPayments, payment)
                publicInput == << FieldElement(amount, SHADOW_PRIME),
                                  FieldElement(invoice.timestamp, SHADOW_PRIME) >>
            IN
            /\ stealthPayments' = pushed
            /\ merkleTree' = RebuildMerkleTree(pushed)
            /\ UNCHANGED createFailed
            /\ \E zk \in { GenerateZKProof(payment, publicInput, draws) } :
                 IF zk.thrown \/ senderPseudonym \notin DOMAIN identities
                 THEN /\ result' = [BridgeNoResult EXCEPT !.outcome = "Error"]
                      /\ now' = readings[2]
                      /\ UNCHANGED << identities, receipts >>
                 ELSE LET paymentProof ==
                              [commitment  |-> payment.commitment,
                               merkleProof |-> MerkleGetProof(merkleTree',
                                                              Len(pushed) - 1),
                               zkProof     |-> [polynomialCommitment |->
                                                    zk.polynomialCommitment,
                                                evaluationProofs |->
                                                    zk.evaluationProofs,
                                                challenge |-> zk.challenge,
                                                response  |-> zk.response],
                               publicInput |-> publicInput]
                          receipt ==
                              [invoiceId |-> invoiceId,
                               paymentProof |-> paymentProof,
                               reputationProof |-> reputationProof,
                               settlementProof |->
                                   SettlementProof(invoiceId, payment.commitment,
                                                   amount),
                               timestamp |-> readings[4]]
                      IN  /\ identities' =
                                MapSet(identities, senderPseudonym,
                                       UpdatedShadow(identities[senderPseudonym],
                                                     "payment", 1 * ScoreScale,
                                                     readings[3]))
                          /\ receipts' = MapSet(receipts, invoiceId, receipt)
                          /\ now' = readings[4]
                          /\ result' = [BridgeNoResult EXCEPT
                                           !.receipt = << receipt >>]

\* getPaymentRoot()
getPaymentRoot == getRoot

\* The calls of a bridge; no operation of the bridge creates an identity in
\* its reputation engine.
BridgeNext ==
    \/ \E config \in MerchantConfigs : RegisterMerchant(config)
    \/ \E merchantId \in MerchantIds, amount \in InvoiceAmounts,
          expirationSeconds \in ExpirationSeconds, t \in ClockReadings :
          CreateInvoice(merchantId, amount, expirationSeconds, t)
    \/ \E invoiceId \in DOMAIN invoices \cup { << "Id()" >> },
          amount \in InvoiceAmounts, chain \in Chains, draws \in RandomDraws,
          readings \in ClockSequences(4) :
          ProcessPayment(invoiceId, CustomerPseudonym, amount, chain, draws,
                         readings)

BridgeSpec == BridgeInit /\ [][BridgeNext]_vars

\* The last call was processPayment on an invoice of a registered merchant,
\* not expired, with the invoice's amount and a chain the merchant accepts.
PaymentDue ==
    /\ call.op = "processPayment"
    /\ call.invoiceId \in DOMAIN invoices
    /\ invoices[call.invoiceId].merchantId \in DOMAIN merchants
    /\ call.time <= invoices[call.invoiceId].expiration
    /\ call.amount = invoices[call.invoiceId].amount
    /\ call.chain \in merchants[invoices[call.invoiceId].merchantId].acceptedChains

\* C22: processPayment on an unexpired invoice of a registered merchant, with
\* the invoice's amount and an accepted chain, returns a receipt, and
\* verifyReceipt(receipt, getPaymentRoot()) is true for it.
C22_PaidInvoiceVerifies ==
    PaymentDue =>
        /\ result.outcome = "ok"
        /\ result.receipt # <<>>
        /\ VerifyReceipt(result.receipt[1], getPaymentRoot)

\* What the code does instead: such a call throws, and for a merchant without
\* a reputation requirement it has appended the payment before it throws.
C22_PaymentAlwaysThrows ==
    call.op = "processPayment" =>
        /\ result.outcome \in { "Error", "ValidationError" }
        /\ result.receipt = <<>>
        /\ receipts = << >>
        /\ identities = << >>

(***************************************************************************)
(* RateLimiter                                                              *)
(***************************************************************************)

\* config.maxRequests and config.windowMs of the limiter of the model.
MaxRequests == 2
WindowMs == 2
\* Latest clock reading and most recorded calls of the model.
MaxTime == 2
MaxChecks == 5

Identifiers == { "a", "b" }

\* this.requests.get(identifier) || []
RequestTimes(identifier) ==
    IF identifier \in DOMAIN requests THEN requests[identifier] ELSE <<>>

\* requestTimes.filter((time) => time > windowStart)
RecentRequests(requestTimes, windowStart) ==
    SelectSeq(requestTimes, LAMBDA time : time > windowStart)

\* A limit that admits one request more.
AllowedAtLimit(requestTimes) == Len(requestTimes) <= MaxRequests

\* requestTimes.length < this.config.maxRequests
Allowed(requestTimes) == Len(requestTimes) < MaxRequests

LimiterNoCall == [op |-> "new", identifier |-> "", time |-> 0]
LimiterNoResult == [allowed |-> FALSE, remaining |-> 0, resetTime |-> 0]

LimiterInit ==
    /\ ServicesNew
    /\ stealthPayments = <<>>
    /\ merkleTree = <<>>
    /\ createFailed = FALSE
    /\ call = LimiterNoCall
    /\ result = LimiterNoResult
    /\ proof = <<>>

LimiterFrame ==
    UNCHANGED << stealthPayments, merkleTree, createFailed, proof, identities,
                 merchants, invoices, receipts >>

\* Map.delete(key)
MapDelete(map, key) == [k \in DOMAIN map \ {key} |-> map[k]] @@ << >>

\* check(identifier), Date.now() returning time
Check(identifier, time) ==
    /\ Len(history) < MaxChecks
    /\ now' = time
    /\ call' = [op |-> "check", identifier |-> identifier, time |-> time]
    /\ LET windowStart == time - WindowMs
           recent == RecentRequests(RequestTimes(identifier), windowStart)
           allowed == Allowed(recent)
           requestTimes == IF allowed THEN Append(recent, time) ELSE recent
       IN  /\ requests' = IF allowed THEN MapSet(requests, identifier, requestTimes)
                          ELSE requests
           /\ result' = [allowed |-> allowed,
                         remaining |-> Max(0, MaxRequests - Len(requestTimes)),
                         resetTime |-> IF Len(requestTimes) > 0
                                       THEN requestTimes[1] + WindowMs
                                       ELSE time + WindowMs]
           /\ history' = Append(history, [op |-> "check", identifier |-> identifier,
                                          time |-> time, allowed |-> allowed])
    /\ LimiterFrame

\* reset(identifier)
Reset(identifier) ==
    /\ Len(history) < MaxChecks
    /\ requests' = MapDelete(requests, identifier)
    /\ call' = [op |-> "reset", identifier |-> identifier, time |-> now]
    /\ result' = LimiterNoResult
    /\ history' = Append(history, [op |-> "reset", identifier |-> identifier,
                                   time |-> now, allowed |-> FALSE])
    /\ UNCHANGED now
    /\ LimiterFrame

\* clear()
Clear ==
    /\ Len(history) < MaxChecks
    /\ requests' = << >>
    /\ call' = [op |-> "clear", identifier |-> "", time |-> now]
    /\ result' = LimiterNoResult
    /\ history' = Append(history, [op |-> "clear", identifier |-> "",
                                   time |-> now, allowed |-> FALSE])
    /\ UNCHANGED now
    /\ LimiterFrame

\* getCount(identifier), Date.now() returning time
GetCount(identifier, time) ==
    /\ now' = time
    /\ call' = [op |-> "getCount", identifier |-> identifier, time |-> time]
    /\ result' = [LimiterNoResult EXCEPT
                     !.remaining = Len(RecentRequests(RequestTimes(identifier),
                                                      time - WindowMs))]
    /\ UNCHANGED << requests, history >>
    /\ LimiterFrame

\* The calls of a limiter under a clock that never runs backwards.
LimiterNext ==
    \/ \E identifier \in Identifiers, t \in now..MaxTime : Check(identifier, t)
    \/ \E identifier \in Identifiers : Reset(identifier)
    \/ Clear
    \/ \E identifier \in Identifiers, t \in now..MaxTime : GetCount(identifier, t)

LimiterSpec == LimiterInit /\ [][LimiterNext]_vars

\* The last of the first n calls that emptied the identifier's record, a
\* reset(identifier) or a clear(); 0 when there is none.
LastReset(identifier, n) ==
    LET resets == { i \in 1..n :
                      \/ history[i].op = "clear"
                      \/ history[i].op = "reset" /\ history[i].identifier = identifier }
    IN  IF resets = {} THEN 0 ELSE CHOOSE i \in resets : \A j \in resets : j <= i

\* The calls for the identifier answered allowed = true at a time the
\* predicate holds of, among the first n calls and after the last reset.
AllowedCalls(identifier, n, InWindow(_)) ==
    { i \in (LastReset(identifier, n) + 1)..n :
          /\ history[i].identifier = identifier
          /\ history[i].allowed
          /\ InWindow(history[i].time) }

\* Every call so far was a check.
OnlyChecks == \A i \in 1..Len(history) : history[i].op = "check"

\* C24: in a sequence of check calls, at most maxRequests calls for one
\* identifier are allowed within any window of windowMs milliseconds (from t
\* up to, not including, t + windowMs); each answer is decided by the earlier
\* allowed calls for the same identifier alone (those since its record was
\* last emptied by reset or clear); a denied call leaves the recorded
\* requests as they were.
C24_AtMostMaxPerWindow ==
    /\ [](OnlyChecks =>
            \A identifier \in Identifiers, t \in 0..MaxTime :
                Cardinality(AllowedCalls(identifier, Len(history),
                                LAMBDA time : t <= time /\ time < t + WindowMs))
                    <= MaxRequests)
    /\ [](\A k \in 1..Len(history) :
            history[k].op = "check" =>
                (history[k].allowed <=>
                    Cardinality(AllowedCalls(history[k].identifier, k - 1,
                                    LAMBDA time : time > history[k].time - WindowMs))
                        < MaxRequests))
    /\ [][(call'.op = "check" /\ ~result'.allowed) => UNCHANGED requests]_vars

\* An identifier is denied at its limit while the other is allowed, and is
\* allowed again once the window has passed.
C24_Witness ==
    /\ Len(history) = 5
    /\ OnlyChecks
    /\ history[1].identifier = "a" /\ history[1].allowed
    /\ history[2].identifier = "a" /\ history[2].allowed
    /\ history[3].identifier = "a" /\ ~history[3].allowed
    /\ history[4].identifier = "b" /\ history[4].allowed
    /\ history[4].time = history[1].time
    /\ history[5].identifier = "a" /\ history[5].allowed
    /\ Len(requests["a"]) = 1

\* C24 read with windows that include both ends, t and t + windowMs.
C24_ClosedWindow ==
    OnlyChecks =>
        \A identifier \in Identifiers, t \in 0..MaxTime :
            Cardinality(AllowedCalls(identifier, Len(history),
                            LAMBDA time : t <= time /\ time <= t + WindowMs))
                <= MaxRequests

\* C24's bound read over every sequence of calls, reset and clear included.
C24_BoundAcrossResets ==
    \A identifier \in Identifiers, t \in 0..MaxTime :
        Cardinality({ i \in 1..Len(history) :
                        /\ history[i].identifier = identifier
                        /\ history[i].allowed
                        /\ t <= history[i].time /\ history[i].time < t + WindowMs })
            <= MaxRequests

(***************************************************************************)
(* The ledger's reading calls                                               *)
(***************************************************************************)

\* A getRoot() that drops the tree it has read.
GetRootDroppingTree ==
    /\ ServicesFrame
    /\ call' = [NoCall EXCEPT !.op = "getRoot"]
    /\ result' = [value |-> getRoot] @@ NoResult
    /\ merkleTree' = <<>>
    /\ UNCHANGED << stealthPayments, createFailed, proof >>

\* getRoot()
GetRoot ==
    /\ ServicesFrame
    /\ call' = [NoCall EXCEPT !.op = "getRoot"]
    /\ result' = [value |-> getRoot] @@ NoResult
    /\ UNCHANGED << stealthPayments, merkleTree, createFailed, proof >>

\* getPaymentCount()
GetPaymentCount ==
    /\ ServicesFrame
    /\ call' = [NoCall EXCEPT !.op = "getPaymentCount"]
    /\ result' = [value |-> getPaymentCount] @@ NoResult
    /\ UNCHANGED << stealthPayments, merkleTree, createFailed, proof >>

\* What the caller of this specification changes in a proof: nothing, the
\* root written in the inclusion proof, or the evaluation sub-proofs, which it
\* replaces by a proof that verifies against another root (the inclusion
\* proof of the payment).
ReaderTampers ==
    { NoTamper, [NoTamper EXCEPT !.kind = "root", !.bytes = OtherDigest],
      [NoTamper EXCEPT !.kind = "evaluationProofs"] }

\* A ledger of valid payments and every call that reads it.
ReaderNext ==
    \/ \E in \in ValidInputs : CreatePayment(in)
    \/ GetRoot
    \/ GetPaymentCount
    \/ \E index \in -1..Len(stealthPayments) : GetPayment(index)
    \/ \E index \in -1..Len(stealthPayments), publicInput \in PublicInputs,
          draws \in RandomDraws :
           GenerateProof(index, publicInput, draws)
    \/ /\ proof # <<>>
       /\ \E t \in ReaderTampers : VerifyProof(t, getRoot[1])

ReaderSpec == Init /\ [][ReaderNext]_vars

ReadingCalls ==
    { "verifyProof", "generateProof", "getRoot", "getPaymentCount", "getPayment" }

\* C25: verifyProof, generateProof, getRoot, getPaymentCount and getPayment
\* leave the ledger as it was, whether they return or fail: the same payments
\* in the same order, the same tree and the same root.
C25_ReadsLeaveLedger ==
    [][call'.op \in ReadingCalls =>
          /\ stealthPayments' = stealthPayments
          /\ merkleTree' = merkleTree
          /\ getRoot' = getRoot]_vars

\* A generateProof call that failed on a ledger of two payments.
C25_Witness ==
    /\ Len(stealthPayments) >= 2
    /\ call.op = "generateProof"
    /\ result.outcome = "ProofError"

\* C28: verifyProof returns true only if the root of every evaluation
\* sub-proof is byte-equal to proof.zkProof.polynomialCommitment.
C28_SubProofsBoundToCommitment ==
    (call.op = "verifyProof" /\ result.valid) =>
        \A k \in 1..Len(VerifiedProof.zkProof.evaluationProofs) :
            BytesEqual(VerifiedProof.zkProof.evaluationProofs[k].root,
                       VerifiedProof.zkProof.polynomialCommitment)

(***************************************************************************)
(* Inclusion proofs a caller builds from a proof of the tree                *)
(***************************************************************************)

\* new MerkleProof(...) from the fields of a proof p of the tree: p itself, p
\* with another index, and the proof of the node above p's leaf (the hash of
\* the leaf and its sibling as leaf, the remaining siblings, half the index).
PositionTampers(p) ==
    { NoTamper }
    \cup { [NoTamper EXCEPT !.kind = "index", !.k = k] : k \in 0..(2 * MaxLeaves) }
    \cup { [NoTamper EXCEPT !.kind = "internal"] : k \in 1..Min(1, Len(p.siblings)) }

SoundnessNext ==
    \/ \E leaves \in SeqUpTo(LeafValues, MaxLeaves) : MerkleNew(leaves)
    \/ /\ merkleTree # <<>>
       /\ \E index \in -1..Len(merkleTree[1]) : MerkleProofOf(index)
    \/ /\ proof # <<>>
       /\ \E t \in PositionTampers(proof[1]) : MerkleProofVerify(t)

SoundnessSpec == MerkleInit /\ [][SoundnessNext]_vars

\* The proof the last verify call was made on.
VerifiedInclusion == MerkleTamper(proof[1], call.tamper)

\* C26: a proof that verifies and whose root is the tree's root names a leaf
\* of the tree: its index is within 0 .. leaf count - 1 and its leaf is the
\* tree's leaf at that index.
C26_VerifiedProofNamesLeaf ==
    (/\ call.op = "verify"
     /\ result.valid
     /\ << VerifiedInclusion.root >> = MerkleGetRoot(merkleTree))
    => /\ 0 <= VerifiedInclusion.index
       /\ VerifiedInclusion.index < Len(merkleTree[1])
       /\ VerifiedInclusion.leaf = merkleTree[1][VerifiedInclusion.index + 1]

\* C26 for the node above a leaf alone: no proof verifies for an inner node.
C26_NoInnerNode ==
    (call.op = "verify" /\ call.tamper.kind = "internal") => ~result.valid

\* C26 for the position an odd level pairs its last node with: on a tree of
\* three leaves no proof verifies with the index just past the last leaf.
C26_NoSelfPairedPosition ==
    (call.op = "verify" /\ call.tamper.kind = "index"
       /\ Len(merkleTree[1]) = 3
       /\ call.tamper.k = Len(merkleTree[1])) => ~result.valid

(***************************************************************************)
(* Longer ledgers and larger amounts                                        *)
(***************************************************************************)

\* Most payments a ledger of this specification holds.
MaxLedger == 4

\* Arguments of createPayment: all pass the validations; one amount is the
\* field prime plus one.
LargeInputs ==
    { PaymentInput(AddressA, 1, 0), PaymentInput(AddressA, SHADOW_PRIME + 1, 0),
      PaymentInput(AddressB, 2, 1) }

LedgerNext ==
    \/ \E in \in LargeInputs :
          Len(stealthPayments) < MaxLedger /\ CreatePaymentCall(in)
    \/ \E inputs \in SeqUpTo(LargeInputs \cup { PaymentInput(AddressA, 0, 0) }, MaxBatch) :
          CreateBatchPayments(inputs)

LedgerSpec == Init /\ [][LedgerNext]_vars

\* The commitments of the payments createPayment stores for the inputs, in order.
CommitmentsOf(inputs) ==
    Array([i \in 1..Len(inputs) |-> MakePayment(inputs[i]).commitment])

\* getRoot() of the ledger holding the payments of the inputs
RootOf(inputs) ==
    IF inputs = <<>> THEN <<>>
    ELSE MerkleGetRoot(MerkleTree(CommitmentsOf(inputs)))

\* C27: two ledgers with different commitment sequences have different
\* roots: no other sequence of up to MaxLedger commitments has the root of
\* the ledger at hand.
C27_RootBindsSequence ==
    \A inputs \in SeqUpTo(LargeInputs, MaxLedger) :
        CommitmentsOf(inputs) #
            Array([i \in 1..Len(stealthPayments) |-> stealthPayments[i].commitment])
        => RootOf(inputs) # getRoot

\* C27, in particular: every successful createPayment changes getRoot().
C27_CreateChangesRoot ==
    [][(call'.op = "createPayment" /\ result'.outcome = "ok")
         => getRoot' # getRoot]_vars

\* C29: the stored record's amount is the amount supplied, and accepted
\* arguments that differ have different commitment preimages, hence
\* different commitments.
C29_EncodingInjective ==
    (call.op = "createPayment" /\ result.outcome = "ok") =>
        /\ result.created[1].amount.value = CreateArgs.amount
        /\ \A in \in LargeInputs :
              in # CreateArgs =>
                  MakePayment(in).commitment # result.created[1].commitment

\* createPayment on each of the inputs in order, from the given payments:
\* each call appends its payment (and rebuilds the tree over all payments).
RECURSIVE PaymentsAfter(_, _)
PaymentsAfter(payments, inputs) ==
    IF inputs = <<>> THEN payments
    ELSE PaymentsAfter(Append(payments, MakePayment(Head(inputs))), Tail(inputs))

\* The state and the returned records of the call made last are those of
\* createPayment on each input in order.
SameAsOneByOne(inputs) ==
    LET payments == PaymentsAfter(stealthPayments, inputs)
    IN  /\ stealthPayments' = payments
        /\ merkleTree' = RebuildMerkleTree(payments)
        /\ getRoot' = MerkleGetRoot(RebuildMerkleTree(payments))
        /\ getPaymentCount' = Len(stealthPayments) + Len(inputs)
        /\ result'.created = SubSeq(payments, Len(stealthPayments) + 1, Len(payments))

\* C30: a successful createBatchPayments(list) leaves the records, their
\* order, the root and the count, and returns the records, that createPayment
\* on each item in order leaves and returns; a createPayment call is the
\* one-item case.
C30_BatchIsSequence ==
    [][/\ (call'.op = "createBatchPayments" /\ result'.outcome = "ok")
            => SameAsOneByOne(call'.inputs)
       /\ (call'.op = "createPayment" /\ result'.outcome = "ok")
            => SameAsOneByOne(call'.inputs)]_vars

\* A successful batch of two different payments.
C30_Witness ==
    /\ call.op = "createBatchPayments"
    /\ result.outcome = "ok"
    /\ Len(result.created) = 2
    /\ Len(stealthPayments) = 2
    /\ result.created[1].commitment # result.created[2].commitment

====
